---- MODULE Spec2Model ----
(***************************************************************************)
(* Formula Audio Lab: the audio engine (AudioEngine), its effects routing  *)
(* graph (EffectsChain and the six effect classes) and the formula         *)
(* generator worklet (FormulaGeneratorProcessor).                          *)
(*                                                                         *)
(* The Web Audio graph is a set of connections <<from, to>> between nodes. *)
(* A node is a pair <<name, k>>: k = 0 for the nodes an object creates     *)
(* once, k = 1..8 for the phaser's all-pass filters, and k = the number of *)
(* the rebuild call for the summing gain nodes rebuild() creates anew.     *)
(***************************************************************************)
EXTENDS Integers, Sequences, FiniteSets, TLC

VARIABLES
  pc,           \* position of the engine's start()/stop() calls
  startArg,     \* the initialState argument of the start() call in progress
  eng,          \* AudioEngine fields: TRUE = holds an object, FALSE = null
  edges,        \* the connections of the audio graph
  rebuilds,     \* number of EffectsChain.rebuild calls on this chain
  wired,        \* enable flags of the latest rebuild (NoFlags before the first)
  created,      \* number of nodes created by rebuild calls on this chain
  repeated,     \* the latest updateEffects was given the flags already wired
  fx,           \* the dry and wet gains of the four mixing effects, and the
                \* state updateParams was last given (NoFlags before)
  opts,         \* processorOptions.formula the generator was constructed with
  proc,         \* the fields of the FormulaGeneratorProcessor
  port,         \* messages posted to the worklet's port, not yet handled
  gen,          \* the engine's GeneratorNode: params, its gain node, and
                \* enabled = the argument of the latest enableFormula call
  lastBlock,    \* what the latest process() call wrote and returned
  blocks,       \* number of process() calls so far
  startPc,      \* position of the start() call in flight ("idle" if none)
  stopPc,       \* position of the stop() call in flight ("idle" if none)
  sessArg,      \* the initialState argument of the start() call in flight
  sess,         \* AudioEngine fields of the session, master gain value,
                \* generator map, _isRecording, visibilityUnsubscribe
  rec,          \* the recorder worklet, its port in both directions, the
                \* engine's onmessage handler, and the blocks it was given
  wake,         \* the wake-lock module's variable, the sentinels obtained
                \* and not released, the visibility callbacks' requests in
                \* flight, and whether the page is visible
  ui,           \* the page: the formulas' enable checkboxes, and the
                \* onEnable handler awaiting startAudio()
  codec         \* a string, the token and hash written for it, and what
                \* b64urlDecode and loadStateFromURL return for them

fxVars == <<pc, startArg, eng, edges, rebuilds, wired, created, repeated, fx>>
genVars == <<opts, proc, port, gen, lastBlock, blocks>>
sessVars == <<startPc, stopPc, sessArg, sess, rec, wake, ui>>
restVars == <<sessVars, codec>>
vars == <<fxVars, genVars, restVars>>

\* ------------------------------------------------------------------ bounds
MaxRebuilds == 2
MaxBlocks == 2
MaxQueue == 1

\* ------------------------------------------------------------- the nodes
MAX_STAGES == 8

N(name) == <<name, 0>>

inputNode == N("fx.input")
outputNode == N("fx.output")
mixBusNode == N("mixBus")
masterGainNode == N("masterGain")
analyserNode == N("analyser")
destinationNode == N("destination")
recorderNodeN == N("recorderNode")
silentGainNode == N("silentGain")

filterNode == N("filter.node")
limiterNode == N("limiter.compressor")
chorusDry == N("chorus.dry")
chorusWet == N("chorus.wet")
chorusDelay == N("chorus.delay")
chorusFeedback == N("chorus.feedback")
phaserDry == N("phaser.dry")
phaserWet == N("phaser.wet")
phaserFeedback == N("phaser.feedback")
phaserInput == N("phaser.input")
phaserOutput == N("phaser.output")
allFilters == [i \in 1..MAX_STAGES |-> <<"phaser.filter", i>>]
delayDry == N("delay.dry")
delayWet == N("delay.wet")
delayDelay == N("delay.delay")
delayFeedback == N("delay.feedback")
reverbConvolver == N("reverb.convolver")
reverbDry == N("reverb.dry")
reverbWet == N("reverb.wet")

\* the summing gain node a rebuild call creates for a dry/wet stage
SumNode(stage, g) == <<stage, g>>
SumNames == {"chorusSum", "phaserSum", "delaySum", "reverbSum"}
IsSum(n) == n[1] \in SumNames

\* ----------------------------------------------------- the effects state
\* the mix knobs' initial values
ChorusMix == 350
PhaserMix == 500
DelayMix == 300
ReverbMix == 250
PhaserStages == 4
ReverbDecay == 2800

\* EffectsState as far as it is read here: the enable flags and the mixes;
\* with every flag, the mixes the knobs start with
EffectsFlags ==
  [filterOn: BOOLEAN, chorusOn: BOOLEAN, phaserOn: BOOLEAN,
   delayOn: BOOLEAN, reverbOn: BOOLEAN, limiterOn: BOOLEAN,
   chorusMix: {ChorusMix}, phaserMix: {PhaserMix}, delayMix: {DelayMix},
   reverbMix: {ReverbMix}, phaserStages: {PhaserStages},
   reverbDecay: {ReverbDecay}]

NoFlags == [none |-> TRUE]

\* AppState as far as start() reads it here: fx may be absent
InitialStates ==
  {[hasState |-> FALSE, hasFx |-> FALSE, fx |-> NoFlags]}
  \cup {[hasState |-> TRUE, hasFx |-> FALSE, fx |-> NoFlags]}
  \cup {[hasState |-> TRUE, hasFx |-> TRUE, fx |-> f] : f \in EffectsFlags}

NoArg == [hasState |-> FALSE, hasFx |-> FALSE, fx |-> NoFlags]

\* ------------------------------------------------ AudioNode connect etc.
Connect(E, a, b) == E \cup {<<a, b>>}

\* node.disconnect(): removes every outgoing connection of the node
Disconnect(E, n) == {e \in E : e[1] # n}

DisconnectSet(E, S) == {e \in E : e[1] \notin S}

\* ---------------------------------------------- the effects' disconnect()
FilterDisconnect(E) == Disconnect(E, filterNode)

ChorusDisconnect(E) ==
  DisconnectSet(E, {chorusDelay, chorusDry, chorusWet, chorusFeedback})

ReverbDisconnect(E) ==
  DisconnectSet(E, {reverbConvolver, reverbDry, reverbWet})

LimiterDisconnect(E) == Disconnect(E, limiterNode)

DelayDisconnect(E) ==
  DisconnectSet(E, {delayDelay, delayDry, delayWet, delayFeedback})

PhaserDisconnect(E) ==
  DisconnectSet(E, {phaserDry, phaserWet, phaserFeedback, phaserInput,
                    phaserOutput}
                     \cup {fx.filters[i] : i \in DOMAIN fx.filters})

\* EffectsChain.disconnectAll, a plausible slip: the chorus is left connected
disconnectAllNoChorus(E) ==
  Disconnect(
    PhaserDisconnect(DelayDisconnect(LimiterDisconnect(ReverbDisconnect(
      FilterDisconnect(Disconnect(E, inputNode)))))),
    outputNode)

\* EffectsChain.disconnectAll
disconnectAll(E) ==
  Disconnect(
    PhaserDisconnect(DelayDisconnect(LimiterDisconnect(ReverbDisconnect(
      ChorusDisconnect(FilterDisconnect(Disconnect(E, inputNode))))))),
    outputNode)

\* ------------------------------------------------- EffectsChain.rebuild
\* The walk of rebuild() is a record: e = the connections so far,
\* node = the local variable `node`, made = nodes created so far.
FilterStep(s, on) ==
  IF on
  THEN [s EXCEPT !.e = Connect(s.e, s.node, filterNode), !.node = filterNode]
  ELSE s

ChorusStep(s, on, g) ==
  IF on
  THEN LET sum == SumNode("chorusSum", g)
       IN [e |-> s.e \cup {<<s.node, chorusDry>>, <<s.node, chorusDelay>>,
                           <<chorusDelay, chorusFeedback>>,
                           <<chorusFeedback, chorusDelay>>,
                           <<chorusDelay, chorusWet>>,
                           <<chorusDry, sum>>, <<chorusWet, sum>>},
           node |-> sum, made |-> s.made + 1]
  ELSE s

\* the loop over phaser.allFilters: pNode.connect(f); pNode = f
PhaserFilterChain ==
  LET f == fx.filters
      n == Len(f)
  IN IF n = 0 THEN {<<phaserInput, phaserOutput>>}
     ELSE {<<phaserInput, f[1]>>}
            \cup {<<f[i], f[i + 1]>> : i \in 1..(n - 1)}
            \cup {<<f[n], phaserOutput>>}

PhaserStep(s, on, g) ==
  IF on
  THEN LET sum == SumNode("phaserSum", g)
       IN [e |-> s.e \cup {<<s.node, phaserDry>>, <<s.node, phaserInput>>}
                     \cup PhaserFilterChain
                     \cup {<<phaserOutput, phaserFeedback>>,
                           <<phaserFeedback, phaserInput>>,
                           <<phaserOutput, phaserWet>>,
                           <<phaserDry, sum>>, <<phaserWet, sum>>},
           node |-> sum, made |-> s.made + 1]
  ELSE s

DelayStep(s, on, g) ==
  IF on
  THEN LET sum == SumNode("delaySum", g)
       IN [e |-> s.e \cup {<<s.node, delayDry>>, <<s.node, delayDelay>>,
                           <<delayDelay, delayFeedback>>,
                           <<delayFeedback, delayDelay>>,
                           <<delayDelay, delayWet>>,
                           <<delayDry, sum>>, <<delayWet, sum>>},
           node |-> sum, made |-> s.made + 1]
  ELSE s

ReverbStep(s, on, g) ==
  IF on
  THEN LET sum == SumNode("reverbSum", g)
       IN [e |-> s.e \cup {<<s.node, reverbDry>>, <<s.node, reverbConvolver>>,
                           <<reverbConvolver, reverbWet>>,
                           <<reverbDry, sum>>, <<reverbWet, sum>>},
           node |-> sum, made |-> s.made + 1]
  ELSE s

LimiterStep(s, on) ==
  IF on
  THEN [s EXCEPT !.e = Connect(s.e, s.node, limiterNode), !.node = limiterNode]
  ELSE s

\* rebuild with the Delay and Reverb slots exchanged (a plausible slip)
rebuildSwapped(E, state, g) ==
  LET s0 == [e |-> disconnectAll(E), node |-> inputNode, made |-> 0]
      s1 == FilterStep(s0, state.filterOn)
      s2 == ChorusStep(s1, state.chorusOn, g)
      s3 == PhaserStep(s2, state.phaserOn, g)
      s4 == ReverbStep(s3, state.reverbOn, g)
      s5 == DelayStep(s4, state.delayOn, g)
      s6 == LimiterStep(s5, state.limiterOn)
  IN [e |-> Connect(s6.e, s6.node, outputNode), made |-> s6.made]

\* rebuild that wires the delay whatever its flag says (a plausible slip)
rebuildDelayAlways(E, state, g) ==
  LET s0 == [e |-> disconnectAll(E), node |-> inputNode, made |-> 0]
      s1 == FilterStep(s0, state.filterOn)
      s2 == ChorusStep(s1, state.chorusOn, g)
      s3 == PhaserStep(s2, state.phaserOn, g)
      s4 == DelayStep(s3, TRUE, g)
      s5 == ReverbStep(s4, state.reverbOn, g)
      s6 == LimiterStep(s5, state.limiterOn)
  IN [e |-> Connect(s6.e, s6.node, outputNode), made |-> s6.made]

\* EffectsChain.rebuild(state), called for the g-th time on connections E:
\* the resulting connections and the number of nodes it created
rebuild(E, state, g) ==
  LET s0 == [e |-> disconnectAll(E), node |-> inputNode, made |-> 0]
      s1 == FilterStep(s0, state.filterOn)
      s2 == ChorusStep(s1, state.chorusOn, g)
      s3 == PhaserStep(s2, state.phaserOn, g)
      s4 == DelayStep(s3, state.delayOn, g)
      s5 == ReverbStep(s4, state.reverbOn, g)
      s6 == LimiterStep(s5, state.limiterOn)
  IN [e |-> Connect(s6.e, s6.node, outputNode), made |-> s6.made]

\* ---------------------------------------------- AudioEngine.updateEffects
\* the connections after updateEffects(state) and the nodes it created
UpdateEffectsGraph(E, state, g) ==
  LET d == Disconnect(Disconnect(E, mixBusNode), outputNode)
      r == rebuild(d, state, g)
  IN [e |-> Connect(Connect(r.e, mixBusNode, inputNode),
                    outputNode, masterGainNode),
      made |-> r.made]

\* =========================================================================
\* The formula generator worklet (FormulaGeneratorProcessor)
\*
\* Numbers are fixed point: a value v stands for v / Unit.  Frequencies,
\* gains, coordinates and parameters are all kept in this unit; angles are
\* milliradians; the time t counts samples, so that t / SampleRate is the
\* time in seconds and t advances by 1 where the code adds 1 / sr.
\* =========================================================================
Unit == 1000
TwoPi == 6283
PiMrad == 3141

\* the global sampleRate of the worklet scope, and the render quantum
SampleRate == 100
BlockLen == 2

\* the element of a one-element set: Only({e(v) : v \in {d}}) computes d
\* once and names it v, as a `const v = d` of the code does
Only(S) == CHOOSE v \in S : TRUE

Max(a, b) == IF a >= b THEN a ELSE b
Min(a, b) == IF a <= b THEN a ELSE b
Abs(a) == IF a >= 0 THEN a ELSE -a

\* the private clamp(x, a, b)
clamp(x, a, b) == Max(a, Min(b, x))

\* fixed-point product (a * b) / Unit, computed in two parts to stay in range
Mul(a, b) == (a \div Unit) * b + ((a % Unit) * b) \div Unit

\* Math.sin of an angle in milliradians (Bhaskara's rational approximation)
Sin(a) ==
  Only({LET h == IF x <= PiMrad THEN x ELSE x - PiMrad
            q == h * (PiMrad - h)
            v == (16 * q) \div ((5 * PiMrad * PiMrad - 4 * q) \div Unit)
        IN IF x <= PiMrad THEN Min(Unit, v) ELSE -Min(Unit, v) :
        x \in {a % TwoPi}})

\* Math.tanh (Pade approximation, saturating at +-3)
Tanh(x) ==
  Only({IF c >= 300 THEN Unit
        ELSE IF c <= -300 THEN -Unit
        ELSE (10 * c * (270000 + c * c)) \div (270000 + 9 * c * c) :
        c \in {x \div 10}})

\* Math.exp (second-order approximation on a clamped argument)
Exp(x) ==
  Only({IF v < -10 * Unit THEN 0
        ELSE IF v <= 0 THEN (Unit * Unit) \div (Unit - v + Mul(v, v) \div 2)
        ELSE LET y == Min(v, 10 * Unit) IN Unit + y + Mul(y, y) \div 2 :
        v \in {x}})

RECURSIVE Log2(_)
\* Math.log2 of a positive value (linear on each octave)
Log2(v) ==
  IF v >= 2 * Unit THEN Unit + Log2(v \div 2)
  ELSE IF v < Unit THEN IF v <= 0 THEN -20 * Unit ELSE Log2(2 * v) - Unit
  ELSE v - Unit

RECURSIVE Pow2Int(_)
Pow2Int(n) == IF n <= 0 THEN 1 ELSE 2 * Pow2Int(n - 1)

\* Math.sqrt of the integers 1..10 (the octave count of the Shepard tone)
SqrtTable == <<1000, 1414, 1732, 2000, 2236, 2449, 2646, 2828, 3000, 3162>>

\* the angle 2*pi*f*t of a sinusoid of frequency f after t samples
Ang(f, t) == (TwoPi * (((f * t) \div SampleRate) % Unit)) \div Unit

\* the phase increment twoPi * (f / sr) of one sample
PhaseInc(f) == (TwoPi * (f \div SampleRate)) \div Unit

\* ------------------------------------------------------- the formula ids
\* the members of the FormulaId union type
FormulaId ==
  {"fm", "am", "logistic", "gliss", "additive", "pm", "beats", "dist",
   "quasi", "lorenz", "karplus", "bitcrush", "noiselp", "pinknoise",
   "brownnoise", "velvetnoise", "rossler", "shepard"}

\* processorOptions.formula: an id of the type, an id outside it, or absent
Missing == "undefined"
FormulaOptions == FormulaId \cup {"bogus", Missing}

\* the defaults of the constructor
DefaultParams ==
  [gain |-> 200, fc |-> 220000, fm |-> 2000, I |-> 2000,
   f1 |-> 220000, f2 |-> 221000,
   base |-> 110000, depth |-> 330000, r |-> 3860, lfoHz |-> 40000,
   f0 |-> 55000, k |-> 150,
   fund |-> 110000, N |-> 12000, move |-> 350,
   f |-> 220000, f2pm |-> 3000,
   fbeat |-> 220000, df |-> 800,
   fd |-> 110000, alpha |-> 3000,
   fq |-> 120000, Aq |-> 220000, wq |-> 800,
   sigma |-> 10000, rho |-> 28000, beta |-> 2667,
   lBase |-> 120000, lFreqScale |-> 40000, lAmp |-> 250,
   ksFreq |-> 110000, ksDamp |-> 985, ksBright |-> 500,
   bcFreq |-> 220000, bcBits |-> 6000, bcDown |-> 8000,
   nCut |-> 800000, pinkBright |-> 500, brownStep |-> 20,
   velvetDensity |-> 2000000,
   rossA |-> 200, rossB |-> 200, rossC |-> 5700,
   rossBase |-> 120000, rossFreqScale |-> 30000, rossAmp |-> 250,
   shepBase |-> 55000, shepSpeed |-> 100, shepOctaves |-> 6000]

\* Object.assign(target, params) / the spread ...o.params
Assign(target, params) ==
  [key \in DOMAIN target \cup DOMAIN params |->
     IF key \in DOMAIN params THEN params[key] ELSE target[key]]

\* the values Math.random() takes here, in [0, 1)
RandomValues == {100, 900}

\* the Karplus-Strong buffer length initKS computes
KSLength(p) ==
  LET freq == Max(20 * Unit, IF p.ksFreq = 0 THEN 110 * Unit ELSE p.ksFreq)
  IN Max(2, (SampleRate * Unit) \div freq)

\* initKS that allocates on every call (a plausible slip: no early return)
initKSAlways(this, force, rnd) ==
  LET n == KSLength(this.p)
  IN [this EXCEPT !.ksN = n,
                  !.ksBuf = [i \in 1..n |-> rnd[i] * 2 - Unit],
                  !.ksIdx = 0]

\* initKS that keeps the index (a plausible slip: ksIdx is not restarted)
initKSKeepsIndex(this, force, rnd) ==
  LET n == KSLength(this.p)
  IN IF ~force /\ this.ksBuf # <<>> /\ this.ksN = n
     THEN this
     ELSE [this EXCEPT !.ksN = n,
                       !.ksBuf = [i \in 1..n |-> rnd[i] * 2 - Unit]]

\* initKS(force) with the random numbers rnd; the processor afterwards
initKS(this, force, rnd) ==
  LET n == KSLength(this.p)
  IN IF ~force /\ this.ksBuf # <<>> /\ this.ksN = n
     THEN this
     ELSE [this EXCEPT !.ksN = n,
                       !.ksBuf = [i \in 1..n |-> rnd[i] * 2 - Unit],
                       !.ksIdx = 0]

\* the largest buffer initKS can ask for (ksFreq floored at 20 Hz)
MaxKSLength == (SampleRate * Unit) \div (20 * Unit)

\* the field initialisers and the constructor, before initKS(true)
NewProcessor(formulaOption, params) ==
  [formula |-> IF formulaOption = Missing THEN "fm" ELSE formulaOption,
   t |-> 0, phase |-> 0, logi |-> 330,
   lx |-> 100, ly |-> 0, lz |-> 0,
   ksBuf |-> <<>>, ksIdx |-> 0, ksN |-> 0,
   nlp |-> 0,
   pinkB0 |-> 0, pinkB1 |-> 0, pinkB2 |-> 0, pinkB3 |-> 0, pinkB4 |-> 0,
   pinkB5 |-> 0, pinkB6 |-> 0,
   brownVal |-> 0, velvetCounter |-> 0, velvetNext |-> 0,
   rx |-> 100, ry |-> 0, rz |-> 0,
   shepardPhases |-> [i \in 1..10 |-> 0], shepardT |-> 0,
   p |-> Assign(DefaultParams, params)]

\* resetState() that forgets the Rossler coordinates (a plausible slip)
resetStateNoRossler(this, rnd) ==
  initKS([this EXCEPT
            !.t = 0, !.phase = 0, !.logi = 330,
            !.lx = 100, !.ly = 0, !.lz = 0, !.nlp = 0,
            !.pinkB0 = 0, !.pinkB1 = 0, !.pinkB2 = 0, !.pinkB3 = 0,
            !.pinkB4 = 0, !.pinkB5 = 0, !.pinkB6 = 0,
            !.brownVal = 0, !.velvetCounter = 0, !.velvetNext = 0,
            !.shepardPhases = [i \in 1..10 |-> 0], !.shepardT = 0],
         TRUE, rnd)

\* resetState()
resetState(this, rnd) ==
  initKS([this EXCEPT
            !.t = 0, !.phase = 0, !.logi = 330,
            !.lx = 100, !.ly = 0, !.lz = 0, !.nlp = 0,
            !.pinkB0 = 0, !.pinkB1 = 0, !.pinkB2 = 0, !.pinkB3 = 0,
            !.pinkB4 = 0, !.pinkB5 = 0, !.pinkB6 = 0,
            !.brownVal = 0, !.velvetCounter = 0, !.velvetNext = 0,
            !.rx = 100, !.ry = 0, !.rz = 0,
            !.shepardPhases = [i \in 1..10 |-> 0], !.shepardT = 0],
         TRUE, rnd)


\* -------------------------------------------------------------- process()
\* One pass of the sample loop works on a record w: this = the processor,
\* phase, t, logi, lx, ly, lz, nlp = the local copies process() makes,
\* x = the local x of the iteration, branch = the case the switch took,
\* out = ch0 so far, raw = the values of x so far.
\* rnd are the values Math.random() returns during the block: sample i
\* (from 0) draws rnd[2i + 1] and rnd[2i + 2], initKS draws rnd[1..N].

CaseFm(w) ==
  LET p == w.this.p
  IN [w EXCEPT !.branch = "fm",
               !.x = Sin(Ang(p.fc, w.t) + Mul(p.I, Sin(Ang(p.fm, w.t))))]

\* step of the logistic case
LogisticStep(p) == Max(1, (SampleRate * Unit) \div Max(1, p.lfoHz))

\* upd collects the sample times at which the recurrence was applied
CaseLogistic(w, i) ==
  LET p == w.this.p
      step == LogisticStep(p)
      logi == IF i % step = 0
              THEN clamp(Mul(Mul(p.r, w.logi), Unit - w.logi), 0, Unit)
              ELSE w.logi
      f == p.base + Mul(p.depth, logi - 500)
      phase == w.phase + PhaseInc(Max(0, f))
  IN [w EXCEPT !.branch = "logistic", !.logi = logi, !.phase = phase,
               !.x = Sin(phase),
               !.upd = IF i % step = 0 THEN @ \cup {w.t} ELSE @]

CaseGliss(w) ==
  LET p == w.this.p
      f == Mul(p.f0, Exp((p.k * w.t) \div SampleRate))
      phase == w.phase + PhaseInc(f)
  IN [w EXCEPT !.branch = "gliss", !.phase = phase, !.x = Sin(phase)]

RECURSIVE HarmonicSum(_, _, _, _)
\* the loop for (k = 1; k <= N; k++) of the additive case, from k on
HarmonicSum(p, t, k, n) ==
  IF k > n THEN 0
  ELSE LET ak == Sin(Ang(p.move, t) + k * Unit) \div k
       IN Mul(ak, Sin(Ang(k * p.fund, t))) + HarmonicSum(p, t, k + 1, n)

CaseAdditive(w) ==
  LET p == w.this.p
      n == Max(1, p.N \div Unit)
      sum == HarmonicSum(p, w.t, 1, n)
  IN [w EXCEPT !.branch = "additive",
               !.x = (sum * Unit) \div Log2((n + 1) * Unit)]

CasePm(w) ==
  LET p == w.this.p
      phi == Sin(Sin(Ang(p.f2pm, w.t)))
  IN [w EXCEPT !.branch = "pm", !.x = Sin(Ang(p.f, w.t) + phi * 5)]

CaseBeats(w) ==
  LET p == w.this.p
  IN [w EXCEPT !.branch = "beats",
               !.x = (Sin(Ang(p.fbeat, w.t))
                      + Sin(Ang(p.fbeat + p.df, w.t))) \div 2]

CaseDist(w) ==
  LET p == w.this.p
  IN [w EXCEPT !.branch = "dist",
               !.x = Tanh(Mul(p.alpha, Sin(Ang(p.fd, w.t))))]

CaseQuasi(w) ==
  LET p == w.this.p
      mod == Sin(Sin(Sin((p.wq * w.t) \div SampleRate)))
      f == Max(0, p.fq + Mul(p.Aq, mod))
      phase == w.phase + PhaseInc(f)
  IN [w EXCEPT !.branch = "quasi", !.phase = phase, !.x = Sin(phase)]

CaseLorenz(w) ==
  LET p == w.this.p
      dx == Mul(p.sigma, w.ly - w.lx)
      dy == Mul(w.lx, p.rho - w.lz) - w.ly
      dz == Mul(w.lx, w.ly) - Mul(p.beta, w.lz)
      lx == w.lx + dx \div SampleRate
      ly == w.ly + dy \div SampleRate
      lz == w.lz + dz \div SampleRate
      freq == Max(0, p.lBase + Mul(p.lFreqScale, Abs(lx)))
      amp == clamp(Mul(p.lAmp, 300 + Mul(700, 500 + Tanh(ly) \div 2)), 0, Unit)
      phase == w.phase + PhaseInc(freq)
  IN [w EXCEPT !.branch = "lorenz", !.lx = lx, !.ly = ly, !.lz = lz,
               !.phase = phase, !.x = Mul(amp, Sin(phase))]

\* buf[idx] of a Float32Array: a read outside the array gives undefined
\* (taken as 0 here), a write outside it is ignored
Cell(buf, idx) == IF idx + 1 \in DOMAIN buf THEN buf[idx + 1] ELSE 0
SetCell(buf, idx, value) ==
  IF idx + 1 \in DOMAIN buf THEN [buf EXCEPT ![idx + 1] = value] ELSE buf

\* taps collects the indices at which the buffer was read
CaseKarplus(w, rnd) ==
  LET this == initKS(w.this, FALSE, rnd)
      p == this.p
      buf == this.ksBuf
      n == this.ksN
      idx == this.ksIdx
      y0 == Cell(buf, idx)
      y1 == Cell(buf, (idx + 1) % n)
      damp == clamp(p.ksDamp, 800, 999)
      bright == clamp(p.ksBright, 0, Unit)
      avg == (y0 + y1) \div 2
      next == Mul(damp, Mul(bright, y0) + Mul(Unit - bright, avg))
  IN [w EXCEPT !.branch = "karplus",
               !.taps = @ \cup {idx, (idx + 1) % n},
               !.this = [this EXCEPT !.ksBuf = SetCell(buf, idx, next),
                                     !.ksIdx = (idx + 1) % n],
               !.x = y0]

CaseNoiselp(w, r1) ==
  LET p == w.this.p
      white == r1 * 2 - Unit
      cut == clamp(p.nCut, 20 * Unit, 18000 * Unit)
      a == Unit - Exp(-((TwoPi * (cut \div SampleRate)) \div Unit))
      nlp == w.nlp + Mul(a, white - w.nlp)
  IN [w EXCEPT !.branch = "noiselp", !.nlp = nlp, !.x = nlp]

\* a product with a coefficient given to five decimals
MulQ(a, c) == (a * c) \div 100000

CasePinknoise(w, r1) ==
  LET this == w.this
      p == this.p
      white == r1 * 2 - Unit
      b0 == MulQ(this.pinkB0, 99886) + MulQ(white, 5552)
      b1 == MulQ(this.pinkB1, 99332) + MulQ(white, 7508)
      b2 == MulQ(this.pinkB2, 96900) + MulQ(white, 15385)
      b3 == MulQ(this.pinkB3, 86650) + MulQ(white, 31049)
      b4 == MulQ(this.pinkB4, 55000) + MulQ(white, 53295)
      b5 == MulQ(this.pinkB5, -76160) - MulQ(white, 1690)
      pink == b0 + b1 + b2 + b3 + b4 + b5 + this.pinkB6 + MulQ(white, 53620)
      bright == clamp(p.pinkBright, 0, Unit)
  IN [w EXCEPT !.branch = "pinknoise",
               !.this = [this EXCEPT !.pinkB0 = b0, !.pinkB1 = b1,
                                     !.pinkB2 = b2, !.pinkB3 = b3,
                                     !.pinkB4 = b4, !.pinkB5 = b5,
                                     !.pinkB6 = MulQ(white, 11593)],
               !.x = Mul(MulQ(pink, 11000), Unit - bright)
                     + Mul(white, bright) \div 2]

CaseBrownnoise(w, r1) ==
  LET this == w.this
      white == r1 * 2 - Unit
      step == clamp(this.p.brownStep, 1, 100)
      v == clamp(this.brownVal + Mul(white, step), -Unit, Unit)
  IN [w EXCEPT !.branch = "brownnoise",
               !.this = [this EXCEPT !.brownVal = v], !.x = v]

CaseVelvetnoise(w, r1, r2) ==
  LET this == w.this
      density == Max(100 * Unit, this.p.velvetDensity)
      avgSamples == (SampleRate * Unit * Unit) \div density
      hit == this.velvetCounter * Unit >= this.velvetNext
  IN [w EXCEPT !.branch = "velvetnoise",
               !.this = [this EXCEPT
                  !.velvetNext = IF hit
                                 THEN this.velvetCounter * Unit
                                      + Mul(avgSamples, 500 + r2)
                                 ELSE @,
                  !.velvetCounter = @ + 1],
               !.x = IF hit THEN (IF r1 > 500 THEN Unit ELSE -Unit) ELSE 0]

CaseRossler(w) ==
  LET this == w.this
      p == this.p
      dx == -this.ry - this.rz
      dy == this.rx + Mul(p.rossA, this.ry)
      dz == p.rossB + Mul(this.rz, this.rx - p.rossC)
      rx == clamp(this.rx + (dx * 100) \div SampleRate, -50 * Unit, 50 * Unit)
      ry == clamp(this.ry + (dy * 100) \div SampleRate, -50 * Unit, 50 * Unit)
      rz == clamp(this.rz + (dz * 100) \div SampleRate, -50 * Unit, 50 * Unit)
      freq == Max(0, p.rossBase + Mul(p.rossFreqScale, rx))
      amp == clamp(Mul(p.rossAmp, 300 + Mul(700, 500 + Mul(20, ry))), 0, Unit)
      phase == w.phase + PhaseInc(freq)
  IN [w EXCEPT !.branch = "rossler",
               !.this = [this EXCEPT !.rx = rx, !.ry = ry, !.rz = rz],
               !.phase = phase, !.x = Mul(amp, Sin(phase))]

\* baseF * 2^(e / Unit) for the exponent e = k + shepardT
ShepardFreq(baseF, e) ==
  LET ip == e \div Unit
      m == (baseF * (Unit + (e % Unit))) \div Unit
  IN IF ip >= 0 THEN Pow2Int(ip) * m ELSE m \div Pow2Int(-ip)

RECURSIVE ShepardBank(_, _, _, _, _)
\* the loop for (k = 0; k < octaves; k++) from k on, acc = [phases, sum]
ShepardBank(baseF, shepardT, k, octaves, acc) ==
  IF k >= octaves THEN acc
  ELSE LET freq == ShepardFreq(baseF, k * Unit + shepardT)
       IN IF freq > 18000 * Unit
          THEN ShepardBank(baseF, shepardT, k + 1, octaves, acc)
          ELSE LET z == ((Log2(freq) - Log2(440 * Unit)) * Unit) \div 1500
                   envelope == Exp(-(Mul(z, z) \div 2))
                   ph == acc.phases[k + 1] + PhaseInc(freq)
                   ph2 == IF ph > TwoPi THEN ph - TwoPi ELSE ph
               IN Only({ShepardBank(baseF, shepardT, k + 1, octaves, a) :
                        a \in {[phases |-> [acc.phases EXCEPT ![k + 1] = ph2],
                                sum |-> acc.sum + Mul(envelope, Sin(ph2))]}})

CaseShepard(w) ==
  LET this == w.this
      p == this.p
      baseF == Max(20 * Unit, p.shepBase)
      octaves == Max(1, Min(10, p.shepOctaves \div Unit))
      t1 == this.shepardT + p.shepSpeed \div SampleRate
      t2 == IF t1 > Unit THEN t1 - Unit ELSE t1
      bank == ShepardBank(baseF, t2, 0, octaves,
                          [phases |-> this.shepardPhases, sum |-> 0])
  IN [w EXCEPT !.branch = "shepard",
               !.this = [this EXCEPT !.shepardT = t2,
                                     !.shepardPhases = bank.phases],
               !.x = (bank.sum * Unit) \div SqrtTable[octaves]]

\* the switch with `default:` sharing the body of case 'fm' (a plausible slip)
DispatchDefaultFm(w, i, rnd) ==
  IF w.this.formula \in {"logistic", "gliss", "additive", "pm", "beats", "dist",
                         "quasi", "lorenz", "rossler", "shepard"}
  THEN CASE w.this.formula = "logistic" -> CaseLogistic(w, i)
         [] w.this.formula = "gliss" -> CaseGliss(w)
         [] w.this.formula = "additive" -> CaseAdditive(w)
         [] w.this.formula = "pm" -> CasePm(w)
         [] w.this.formula = "beats" -> CaseBeats(w)
         [] w.this.formula = "dist" -> CaseDist(w)
         [] w.this.formula = "quasi" -> CaseQuasi(w)
         [] w.this.formula = "lorenz" -> CaseLorenz(w)
         [] w.this.formula = "rossler" -> CaseRossler(w)
         [] w.this.formula = "shepard" -> CaseShepard(w)
  ELSE IF w.this.formula = "karplus" THEN CaseKarplus(w, rnd)
  ELSE IF w.this.formula = "noiselp" THEN CaseNoiselp(w, rnd[2 * i + 1])
  ELSE IF w.this.formula = "pinknoise" THEN CasePinknoise(w, rnd[2 * i + 1])
  ELSE IF w.this.formula = "brownnoise" THEN CaseBrownnoise(w, rnd[2 * i + 1])
  ELSE IF w.this.formula = "velvetnoise"
  THEN CaseVelvetnoise(w, rnd[2 * i + 1], rnd[2 * i + 2])
  ELSE CaseFm(w)

\* the switch (this.formula) of one iteration
Dispatch(w, i, rnd) ==
  LET id == w.this.formula
      r1 == rnd[2 * i + 1]
      r2 == rnd[2 * i + 2]
  IN CASE id = "fm" -> CaseFm(w)
       [] id = "logistic" -> CaseLogistic(w, i)
       [] id = "gliss" -> CaseGliss(w)
       [] id = "additive" -> CaseAdditive(w)
       [] id = "pm" -> CasePm(w)
       [] id = "beats" -> CaseBeats(w)
       [] id = "dist" -> CaseDist(w)
       [] id = "quasi" -> CaseQuasi(w)
       [] id = "lorenz" -> CaseLorenz(w)
       [] id = "karplus" -> CaseKarplus(w, rnd)
       [] id = "noiselp" -> CaseNoiselp(w, r1)
       [] id = "pinknoise" -> CasePinknoise(w, r1)
       [] id = "brownnoise" -> CaseBrownnoise(w, r1)
       [] id = "velvetnoise" -> CaseVelvetnoise(w, r1, r2)
       [] id = "rossler" -> CaseRossler(w)
       [] id = "shepard" -> CaseShepard(w)
       [] OTHER -> [w EXCEPT !.branch = "default", !.x = 0]

\* one iteration of the sample loop: the switch, then the common tail
SampleStep(w, i, rnd) ==
  Only({[d EXCEPT !.out = Append(@, Mul(d.x, d.this.p.gain)),
                  !.raw = Append(@, d.x),
                  !.taken = @ \cup {d.branch},
                  !.t = @ + 1,
                  !.phase = IF d.phase \div Unit > 1000000000
                            THEN d.phase % TwoPi ELSE d.phase] :
        d \in {Dispatch(w, i, rnd)}})

RECURSIVE SampleLoop(_, _, _, _)
\* for (let i = 0; i < n; i++) from i on
SampleLoop(w, i, n, rnd) ==
  IF i >= n THEN w
  ELSE Only({SampleLoop(v, i + 1, n, rnd) : v \in {SampleStep(w, i, rnd)}})

\* process(): the processor afterwards, the block written to ch0, the raw
\* values of x, the cases taken and the return value
process(this, n, rnd) ==
  Only({Only({[this |-> [w.this EXCEPT !.phase = w.phase, !.t = w.t,
                                       !.logi = w.logi, !.lx = w.lx,
                                       !.ly = w.ly, !.lz = w.lz,
                                       !.nlp = w.nlp],
               out |-> w.out, raw |-> w.raw, taken |-> w.taken,
               upd |-> w.upd, taps |-> w.taps, ret |-> TRUE] :
              w \in {SampleLoop(w0, 0, n, rnd)}}) :
        w0 \in {[this |-> this, phase |-> this.phase, t |-> this.t,
                 logi |-> this.logi, lx |-> this.lx, ly |-> this.ly,
                 lz |-> this.lz, nlp |-> this.nlp,
                 x |-> 0, branch |-> "", out |-> <<>>, raw |-> <<>>,
                 taken |-> {}, upd |-> {}, taps |-> {}]}})


\* --------------------------------------------------------------- the engine
\* no generator under observation (the effects specification)
NoProcessor == [formula |-> "none"]
NoGenerator ==
  [params |-> [gain |-> 0], gainValue |-> 0, gainTarget |-> 0,
   enabled |-> FALSE]
NoBlock ==
  [out |-> <<>>, raw |-> <<>>, taken |-> {}, upd |-> {}, taps |-> {},
   ret |-> FALSE]

\* a GainNode's gain as created
NodeDefault == [dry |-> Unit, wet |-> Unit]

\* the gains of a new EffectsChain
NoEffects ==
  [params |-> NoFlags,
   gain |-> [e \in {"chorus", "phaser", "delay", "reverb"} |-> NodeDefault],
   filters |-> allFilters,
   impulse |-> 0]

\* the impulse responses the convolver holds are told apart by a serial
\* number: 0 is no buffer, a new AudioBuffer takes the other of 1 and 2
NewImpulse(impulse) == IF impulse = 1 THEN 2 ELSE 1

\* Reverb.setDecay: convolver.buffer = makeImpulseResponse(...)
setDecay(impulse, decay) == NewImpulse(impulse)

\* Reverb.update(decay, mix), on the convolver's buffer
ReverbUpdate(chain, state) == setDecay(chain.impulse, state.reverbDecay)

\* Phaser.update that keeps the first `stages` filters (a plausible slip)
PhaserUpdateCutsStages(chain, state) ==
  SubSeq(chain.filters, 1, Min(state.phaserStages, Len(chain.filters)))

\* Phaser.update(rate, depth, _stages, feedback, mix), on the filter list
PhaserUpdate(chain, state) == chain.filters

\* Chorus.setMix, Phaser.setMix, Delay.setMix, Reverb.setMix
setMix(mix) == [dry |-> Unit - mix, wet |-> mix]

\* EffectsChain.updateParams leaving the delay as it is
updateParamsSkipsDelay(chain, state) ==
  [params |-> state,
   gain |-> [chorus |-> setMix(state.chorusMix),
             reverb |-> setMix(state.reverbMix),
             delay |-> chain.gain.delay,
             phaser |-> setMix(state.phaserMix)],
   filters |-> PhaserUpdate(chain, state),
   impulse |-> ReverbUpdate(chain, state)]

\* EffectsChain.updateParams, on the gains
updateParams(chain, state) ==
  [params |-> state,
   gain |-> [chorus |-> setMix(state.chorusMix),
             reverb |-> setMix(state.reverbMix),
             delay |-> setMix(state.delayMix),
             phaser |-> setMix(state.phaserMix)],
   filters |-> PhaserUpdate(chain, state),
   impulse |-> ReverbUpdate(chain, state)]

NullEngine ==
  [ctx |-> FALSE, analyser |-> FALSE, mixBus |-> FALSE, masterGain |-> FALSE,
   effectsChain |-> FALSE, recorderNode |-> FALSE]

\* the formulas of the page
SessFormulas == {"fm", "logistic", "gliss"}

\* nothing of a session: the engine as constructed, no recorder worklet
NoState == [hasState |-> FALSE, hasMaster |-> FALSE, masterGain |-> 0,
            formulas |-> <<>>]
NoSession ==
  [eng |-> NullEngine, ctxState |-> "none", master |-> 0,
   generators |-> <<>>,
   isRecording |-> FALSE, visibilityUnsubscribe |-> FALSE,
   stopAgain |-> FALSE]
NoRecorder ==
  [alive |-> FALSE, recording |-> FALSE, chunks |-> <<>>, inbox |-> <<>>,
   outbox |-> <<>>, handler |-> "none", pending |-> 0, out |-> <<>>,
   tape |-> <<>>]

NoWakeLock == [wakeLock |-> 0, live |-> {}, pending |-> 0, visible |-> TRUE]

\* the page as loaded: the checkboxes, the onEnable handler awaiting
\* startAudio(), the gain knobs and the master knob at their initial values,
\* and whether the page shows a preset applied while the engine was running
SliderValue == 200
MasterDefault == 250

\* createKnob(options): the state stored on the element, with the last
\* operation on the knob and whether it has called onChange
NewKnob(min, max, step, value) ==
  [value |-> value, min |-> min, max |-> max, step |-> step,
   defaultValue |-> value, isDragging |-> FALSE, startValue |-> 0,
   op |-> "create", fired |-> FALSE]

NoPage ==
  [checked |-> [id \in SessFormulas |-> FALSE], waiting |-> <<>>,
   gain |-> [id \in SessFormulas |-> SliderValue], master |-> MasterDefault,
   applied |-> FALSE,
   knob |-> NewKnob(0, Unit, 1, MasterDefault)]

SessIdle ==
  /\ wake = NoWakeLock
  /\ ui = NoPage
  /\ startPc = "idle"
  /\ stopPc = "idle"
  /\ sessArg = NoState
  /\ sess = NoSession
  /\ rec = NoRecorder

NoCodec == [stage |-> "idle", str |-> <<>>, token |-> <<>>, hash |-> <<>>,
            decoded |-> <<>>, loaded |-> <<>>, isNull |-> FALSE]

RestIdle == SessIdle /\ codec = NoCodec

\* the engine as constructed, no generator under observation
EngineIdle ==
  /\ pc = "stopped"
  /\ startArg = NoArg
  /\ eng = NullEngine
  /\ edges = {}
  /\ rebuilds = 0
  /\ wired = NoFlags
  /\ created = 0
  /\ repeated = FALSE
  /\ fx = NoEffects
  /\ opts = Missing
  /\ proc = NoProcessor
  /\ port = <<>>
  /\ gen = NoGenerator
  /\ lastBlock = NoBlock
  /\ blocks = 0

Init == EngineIdle /\ RestIdle

\* start(initialState) up to its first await: the context is created
StartCall(initialState) ==
  /\ pc = "stopped"
  /\ ~eng.ctx
  /\ pc' = "loading"
  /\ startArg' = initialState
  /\ eng' = [eng EXCEPT !.ctx = TRUE]
  /\ UNCHANGED <<edges, rebuilds, wired, created, repeated, fx>>
  /\ UNCHANGED <<genVars, restVars>>

\* the connections start() makes around the new effects chain
StartGraph ==
  {<<mixBusNode, inputNode>>, <<outputNode, masterGainNode>>,
   <<masterGainNode, analyserNode>>, <<analyserNode, destinationNode>>,
   <<masterGainNode, recorderNodeN>>, <<recorderNodeN, silentGainNode>>,
   <<silentGainNode, destinationNode>>}

\* start() from the worklets being loaded to the await of requestWakeLock:
\* nodes, effects chain, recorder, and the initial effects state if given
StartBuild ==
  /\ pc = "loading"
  /\ eng' = [ctx |-> TRUE, analyser |-> TRUE, mixBus |-> TRUE,
             masterGain |-> TRUE, effectsChain |-> TRUE, recorderNode |-> TRUE]
  /\ IF startArg.hasState /\ startArg.hasFx
     THEN LET u == UpdateEffectsGraph(StartGraph, startArg.fx, 1)
          IN /\ edges' = u.e
             /\ rebuilds' = 1
             /\ wired' = startArg.fx
             /\ created' = u.made
             /\ fx' = updateParams(NoEffects, startArg.fx)
     ELSE /\ edges' = StartGraph
          /\ rebuilds' = 0
          /\ wired' = NoFlags
          /\ created' = 0
          /\ fx' = NoEffects
  /\ pc' = "locking"
  /\ UNCHANGED <<startArg, repeated>>
  /\ UNCHANGED <<genVars, restVars>>

\* start() after requestWakeLock: subscribe, dispatch 'start'
StartFinish ==
  /\ pc = "locking"
  /\ pc' = "running"
  /\ startArg' = NoArg
  /\ UNCHANGED <<eng, edges, rebuilds, wired, created, repeated, fx>>
  /\ UNCHANGED <<genVars, restVars>>

\* updateEffects(state)
UpdateEffects(state) ==
  /\ eng.effectsChain /\ eng.mixBus /\ eng.masterGain
  /\ rebuilds < MaxRebuilds
  /\ LET u == UpdateEffectsGraph(edges, state, rebuilds + 1)
     IN /\ edges' = u.e
        /\ created' = created + u.made
  /\ rebuilds' = rebuilds + 1
  /\ wired' = state
  /\ repeated' = (rebuilds > 0 /\ state = wired)
  /\ fx' = updateParams(fx, state)
  /\ UNCHANGED <<pc, startArg, eng>>
  /\ UNCHANGED <<genVars, restVars>>

\* stop() up to the end of its 80 ms fade
StopCall ==
  /\ pc = "running"
  /\ eng.ctx
  /\ pc' = "stopping"
  /\ UNCHANGED <<startArg, eng, edges, rebuilds, wired, created, repeated, fx>>
  /\ UNCHANGED <<genVars, restVars>>

\* stop() after the fade: destroy the chain, close the context, clear
StopFinish ==
  /\ pc = "stopping"
  /\ pc' = "stopped"
  /\ eng' = NullEngine
  /\ edges' = {}
  /\ rebuilds' = 0
  /\ wired' = NoFlags
  /\ created' = 0
  /\ repeated' = FALSE
  /\ fx' = NoEffects
  /\ UNCHANGED startArg
  /\ UNCHANGED <<genVars, restVars>>

Next ==
  \/ \E a \in InitialStates : StartCall(a)
  \/ StartBuild
  \/ StartFinish
  \/ \E f \in EffectsFlags : UpdateEffects(f)
  \/ StopCall
  \/ StopFinish

Spec == Init /\ [][Next]_vars

\* =========================================================================
\* One generator of a running engine: the worklet processor, the port that
\* carries the engine's messages to it, and the engine's GeneratorNode entry
\* with the mixer gain node between the worklet and the mix bus.
\* =========================================================================
RandLen == Max(2 * BlockLen, MaxKSLength)

\* the draws of Math.random() during one call that consumes the draws at
\* the positions used; the draws nobody reads are left at one value
Draws(used) ==
  {[i \in 1..RandLen |-> IF i \in used THEN d[i] ELSE 100] :
     d \in [used -> RandomValues]}

\* the cases of process() that call Math.random(), and the draws they read
DrawsOfBlock(this) ==
  CASE this.formula = "karplus" ->
         IF this.ksBuf # <<>> /\ this.ksN = KSLength(this.p)
         THEN Draws({}) ELSE Draws(1..KSLength(this.p))
    [] this.formula \in {"noiselp", "pinknoise", "brownnoise"} ->
         Draws({2 * i + 1 : i \in 0..(BlockLen - 1)})
    [] this.formula = "velvetnoise" -> Draws(1..(2 * BlockLen))
    [] OTHER -> Draws({})

\* the noise initKS(true) writes is read by the karplus case only
DrawsOfInitKS(this) ==
  IF this.formula = "karplus" THEN Draws(1..KSLength(this.p)) ELSE Draws({})

\* the gain the state layer hands to start() for this formula
InitialGains == {200}

\* the (param, value) pairs the knobs send through updateFormulaParam
ParamInputs == {<<"gain", 500>>}

RunningEngine ==
  [ctx |-> TRUE, analyser |-> TRUE, mixBus |-> TRUE, masterGain |-> TRUE,
   effectsChain |-> TRUE, recorderNode |-> TRUE]

\* the engine has started without an effects state and has built, in the
\* loop of start(), the generator under observation: the worklet with its
\* processorOptions, and a mixer gain node of value 0
InitGen ==
  /\ pc = "running"
  /\ startArg = NoArg
  /\ eng = RunningEngine
  /\ edges = StartGraph
  /\ rebuilds = 0
  /\ wired = NoFlags
  /\ created = 0
  /\ repeated = FALSE
  /\ fx = NoEffects
  /\ opts \in FormulaOptions
  /\ \E g \in InitialGains :
     \E rnd \in DrawsOfInitKS(NewProcessor(opts, [gain |-> g])) :
       /\ proc = initKS(NewProcessor(opts, [gain |-> g]), TRUE, rnd)
       /\ gen = [params |-> [gain |-> g], gainValue |-> 0, gainTarget |-> 0,
                 enabled |-> FALSE]
  /\ port = <<>>
  /\ lastBlock = NoBlock
  /\ blocks = 0
  /\ RestIdle

\* the audio thread renders one block
Render(rnd, most) ==
  /\ blocks < most
  /\ \E r \in {process(proc, BlockLen, rnd)} :
       /\ proc' = r.this
       /\ lastBlock' = [out |-> r.out, raw |-> r.raw, taken |-> r.taken,
                        upd |-> r.upd, taps |-> r.taps, ret |-> r.ret]
  /\ blocks' = blocks + 1
  /\ UNCHANGED <<opts, port, gen>>
  /\ UNCHANGED <<fxVars, restVars>>

\* the audio thread renders one of the first MaxBlocks blocks
Process(rnd) == Render(rnd, MaxBlocks)

\* port.onmessage that restarts the clock on a 'set' (a plausible slip)
HandleMessageSetRestarts(rnd) ==
  /\ port # <<>>
  /\ LET msg == Head(port)
     IN IF msg.type = "set"
        THEN proc' = [proc EXCEPT !.p = Assign(proc.p, msg.params),
                                  !.t = 0, !.phase = 0]
        ELSE IF msg.type = "reset"
        THEN proc' = resetState(proc, rnd)
        ELSE proc' = proc
  /\ port' = Tail(port)
  /\ UNCHANGED <<opts, gen, lastBlock, blocks>>
  /\ UNCHANGED <<fxVars, restVars>>

\* port.onmessage of the processor, for the oldest message of the port
HandleMessage(rnd) ==
  /\ port # <<>>
  /\ LET msg == Head(port)
     IN IF msg.type = "set"
        THEN proc' = [proc EXCEPT !.p = Assign(proc.p, msg.params)]
        ELSE IF msg.type = "reset"
        THEN proc' = resetState(proc, rnd)
        ELSE proc' = proc
  /\ port' = Tail(port)
  /\ UNCHANGED <<opts, gen, lastBlock, blocks>>
  /\ UNCHANGED <<fxVars, restVars>>

\* gen.params[param] = value
SetParam(params, param, value) ==
  [key \in DOMAIN params \cup {param} |->
     IF key = param THEN value ELSE params[key]]

\* updateFormulaParam(id, param, value)
UpdateFormulaParam(param, value) ==
  /\ Len(port) < MaxQueue
  /\ port' = Append(port, [type |-> "set", params |-> SetParam(<<>>, param, value)])
  /\ gen' = [gen EXCEPT
               !.params = SetParam(gen.params, param, value),
               !.gainTarget = IF param = "gain" /\ gen.gainValue > 0 /\ eng.ctx
                              THEN value ELSE @]
  /\ UNCHANGED <<opts, proc, lastBlock, blocks>>
  /\ UNCHANGED <<fxVars, restVars>>

\* resetFormula(id)
ResetFormula ==
  /\ Len(port) < MaxQueue
  /\ port' = Append(port, [type |-> "reset", params |-> <<>>])
  /\ UNCHANGED <<opts, proc, gen, lastBlock, blocks>>
  /\ UNCHANGED <<fxVars, restVars>>

\* enableFormula that restarts the generator when it enables it (a
\* plausible slip: a reset message goes out with the gain change)
EnableFormulaRestarting(enabled) ==
  /\ eng.ctx
  /\ gen' = [gen EXCEPT !.gainTarget = IF enabled THEN gen.params.gain ELSE 0,
                        !.enabled = enabled]
  /\ gen' # gen
  /\ port' = IF enabled /\ Len(port) < MaxQueue
             THEN Append(port, [type |-> "reset", params |-> <<>>])
             ELSE port
  /\ UNCHANGED <<opts, proc, lastBlock, blocks>>
  /\ UNCHANGED <<fxVars, restVars>>

\* enableFormula(id, enabled)
EnableFormula(enabled) ==
  /\ eng.ctx
  /\ LET targetGain == IF enabled
                       THEN (IF "gain" \in DOMAIN gen.params
                             THEN gen.params.gain ELSE 200)
                       ELSE 0
     IN gen' = [gen EXCEPT !.gainTarget = targetGain, !.enabled = enabled]
  /\ gen' # gen
  /\ UNCHANGED <<opts, proc, port, lastBlock, blocks>>
  /\ UNCHANGED <<fxVars, restVars>>

\* setTargetAtTime at work: the gain value arrives at its target
GainRamp ==
  /\ gen.gainValue # gen.gainTarget
  /\ gen' = [gen EXCEPT !.gainValue = gen.gainTarget]
  /\ UNCHANGED <<opts, proc, port, lastBlock, blocks>>
  /\ UNCHANGED <<fxVars, restVars>>

NextGen ==
  \/ \E rnd \in DrawsOfBlock(proc) : Process(rnd)
  \/ \E rnd \in DrawsOfInitKS(proc) : HandleMessage(rnd)
  \/ \E pv \in ParamInputs : UpdateFormulaParam(pv[1], pv[2])
  \/ ResetFormula
  \/ \E b \in BOOLEAN : EnableFormula(b)
  \/ GainRamp

SpecGen == InitGen /\ [][NextGen]_vars

\* ------------------------------------------------- the logistic generator
MaxStream == 30

\* lfoHz values tried: steps 1, 2, 3 and 4 at a sample rate of 100
LfoInputs == {100000, 40000, 33000, 25000}

\* the engine has built the logistic generator with one of the lfoHz values
InitLogistic ==
  /\ pc = "running"
  /\ startArg = NoArg
  /\ eng = RunningEngine
  /\ edges = StartGraph
  /\ rebuilds = 0
  /\ wired = NoFlags
  /\ created = 0
  /\ repeated = FALSE
  /\ fx = NoEffects
  /\ opts = "logistic"
  /\ \E hz \in LfoInputs :
       /\ proc = NewProcessor("logistic", [lfoHz |-> hz])
       /\ gen = [params |-> [lfoHz |-> hz], gainValue |-> 0,
                 gainTarget |-> 0, enabled |-> FALSE]
  /\ port = <<>>
  /\ lastBlock = NoBlock
  /\ blocks = 0
  /\ RestIdle

\* the audio thread renders the next block of the stream
RenderStream == \E rnd \in DrawsOfBlock(proc) : Render(rnd, MaxStream)

NextLogistic == RenderStream

SpecLogistic == InitLogistic /\ [][NextLogistic]_vars

\* ------------------------------------------- the Karplus-Strong generator
\* the (param, value) pairs the knobs of the karplus card send: string
\* frequencies of target lengths 3, 3 and 2, damping and brightness (the
\* gain knob goes the same way and is in ParamInputs)
KarplusInputs ==
  {<<"ksFreq", 28000>>, <<"ksFreq", 30000>>, <<"ksFreq", 110000>>,
   <<"ksDamp", 900>>, <<"ksBright", 1000>>}

\* the noise of a new buffer: the first two cells take either value
KarplusNoise == Draws(1..2)

\* the noise the oldest message of the port makes initKS(true) draw
DrawsOfMessage ==
  IF port # <<>> /\ Head(port).type = "reset"
  THEN KarplusNoise ELSE Draws({})

\* the noise the next block makes initKS(false) draw
DrawsOfKarplusBlock ==
  IF proc.ksBuf # <<>> /\ proc.ksN = KSLength(proc.p)
  THEN Draws({}) ELSE KarplusNoise

\* the engine has built the karplus generator; the constructor has filled
\* the buffer
InitKarplus ==
  /\ pc = "running"
  /\ startArg = NoArg
  /\ eng = RunningEngine
  /\ edges = StartGraph
  /\ rebuilds = 0
  /\ wired = NoFlags
  /\ created = 0
  /\ repeated = FALSE
  /\ fx = NoEffects
  /\ opts = "karplus"
  /\ \E g \in InitialGains :
     \E rnd \in DrawsOfInitKS(NewProcessor(opts, [gain |-> g])) :
       /\ proc = initKS(NewProcessor(opts, [gain |-> g]), TRUE, rnd)
       /\ gen = [params |-> [gain |-> g], gainValue |-> 0, gainTarget |-> 0,
                 enabled |-> FALSE]
  /\ port = <<>>
  /\ lastBlock = NoBlock
  /\ blocks = 0
  /\ RestIdle

NextKarplus ==
  \/ \E rnd \in DrawsOfKarplusBlock : Process(rnd)
  \/ \E rnd \in DrawsOfMessage : HandleMessage(rnd)
  \/ \E pv \in KarplusInputs : UpdateFormulaParam(pv[1], pv[2])
  \/ ResetFormula

SpecKarplus == InitKarplus /\ [][NextKarplus]_vars

\* -------------------------------------------------- the Shepard generator
\* shepSpeed values of the documented range -0.5..0.5
SpeedInputs == {-500, -100, 100, 500}

\* the engine has built the shepard generator with one of the speeds
InitShepard ==
  /\ pc = "running"
  /\ startArg = NoArg
  /\ eng = RunningEngine
  /\ edges = StartGraph
  /\ rebuilds = 0
  /\ wired = NoFlags
  /\ created = 0
  /\ repeated = FALSE
  /\ fx = NoEffects
  /\ opts = "shepard"
  /\ \E speed \in SpeedInputs :
       /\ proc = NewProcessor("shepard", [shepSpeed |-> speed])
       /\ gen = [params |-> [shepSpeed |-> speed], gainValue |-> 0,
                 gainTarget |-> 0, enabled |-> FALSE]
  /\ port = <<>>
  /\ lastBlock = NoBlock
  /\ blocks = 0
  /\ RestIdle

NextShepard == RenderStream

SpecShepard == InitShepard /\ [][NextShepard]_vars

\* ------------------------------------------------ the recorder worklet
MaxChunks == 2
MaxInbox == 1

\* one render quantum of one channel, and the inputs of a process() call:
\* no channel (nothing connected), mono, stereo (the reverb's convolver has
\* a 2-channel impulse response)
ChannelA == <<1, 2>>
ChannelB == <<3, 4>>
Silence == <<0, 0>>
RecInputs ==
  {<<>>, <<ChannelA>>, <<ChannelB, ChannelA>>}

RECURSIVE Concat(_)
\* the loop of the 'stop' branch: all chunks copied into one array
Concat(chunks) ==
  IF chunks = <<>> THEN <<>> ELSE Head(chunks) \o Concat(Tail(chunks))

\* RecorderProcessor.port.onmessage leaving the 'stop' chunks in place
recOnMessageKeepsChunks(p, msg) ==
  IF msg.type = "start"
  THEN [recording |-> TRUE, chunks |-> p.chunks, post |-> <<>>]
  ELSE IF msg.type = "stop"
  THEN [recording |-> FALSE, chunks |-> p.chunks,
        post |-> <<[type |-> "data", samples |-> Concat(p.chunks)]>>]
  ELSE [recording |-> p.recording, chunks |-> p.chunks, post |-> <<>>]

\* RecorderProcessor.port.onmessage
recOnMessage(p, msg) ==
  IF msg.type = "start"
  THEN [recording |-> TRUE, chunks |-> <<>>, post |-> <<>>]
  ELSE IF msg.type = "stop"
  THEN [recording |-> FALSE, chunks |-> <<>>,
        post |-> <<[type |-> "data", samples |-> Concat(p.chunks)]>>]
  ELSE [recording |-> p.recording, chunks |-> p.chunks, post |-> <<>>]

\* RecorderProcessor.process: inputs[0] is the list of the input's channels,
\* outputs[0] has one channel (outputChannelCount [1]), zero-filled
recProcess(p, input) ==
  IF input # <<>>
  THEN [out |-> <<input[1]>>,
        chunks |-> IF p.recording THEN Append(p.chunks, input[1])
                   ELSE p.chunks]
  ELSE [out |-> <<Silence>>, chunks |-> p.chunks]

\* ------------------------------------------------------------ the wake lock
MaxPending == 1
MaxSentinels == 1

\* the sentinels held and the callbacks' requests that may yet obtain one
Requests(w) == Cardinality(w.live) + w.pending

\* a sentinel not among the unreleased ones
FreshSentinel(w) == CHOOSE id \in 1..(Cardinality(w.live) + 1) : id \notin w.live

\* requestWakeLock() after its await: the request was granted (the page is
\* visible) and the new sentinel is stored, or it was rejected and logged
RequestSettled(w) ==
  IF w.visible
  THEN [w EXCEPT !.wakeLock = FreshSentinel(w),
                 !.live = @ \cup {FreshSentinel(w)}]
  ELSE w

\* releaseWakeLock(): the stored sentinel, if any, is released; its
\* 'release' listener and the assignment after the await clear the variable
releaseWakeLock(w) ==
  IF w.wakeLock # 0
  THEN [w EXCEPT !.wakeLock = 0, !.live = @ \ {w.wakeLock}]
  ELSE w

\* hasWakeLock()
hasWakeLock(w) == w.wakeLock # 0

\* ------------------------------------------------------------ the session
MasterInput == 100

\* the AppState arguments start() is given: none, or a master gain and,
\* per formula, the enabled flag and the gain parameter
SessStates ==
  {NoState,
   [hasState |-> TRUE, hasMaster |-> TRUE, masterGain |-> 500,
    formulas |-> [id \in SessFormulas |->
                    [enabled |-> (id = "fm"), params |-> [gain |-> 400]]]]}

\* initParams of the loop of start(): the state's value, else the slider's
InitParams(state, id) ==
  IF state.hasState /\ id \in DOMAIN state.formulas
  THEN state.formulas[id].params
  ELSE [gain |-> SliderValue]

\* the generator map start() builds, after its enableFormula loop
BuiltGenerators(state) ==
  [id \in SessFormulas |->
     [params |-> InitParams(state, id),
      target |-> IF state.hasState /\ id \in DOMAIN state.formulas
                    /\ state.formulas[id].enabled
                 THEN InitParams(state, id).gain ELSE 0]]

BuiltMaster(state) ==
  IF state.hasState /\ state.hasMaster THEN state.masterGain
  ELSE MasterDefault

notSess == <<fxVars, genVars, codec>>

\* isRunning
isRunning(s) == s.eng.ctx /\ s.ctxState = "running"

\* enableFormula(id, enabled) on the engine's fields
enableFormulaOf(s, id, enabled) ==
  IF id \notin DOMAIN s.generators \/ ~s.eng.ctx THEN s
  ELSE [s EXCEPT !.generators[id].target =
                    IF enabled THEN s.generators[id].params.gain ELSE 0]

\* onEnable after its await of startAudio(): enableFormula and
\* updateFormulaCard if the engine is running
OnEnableRest(s, u, id, enabled) ==
  IF isRunning(s)
  THEN [s |-> enableFormulaOf(s, id, enabled),
        u |-> [u EXCEPT !.checked[id] = enabled]]
  ELSE [s |-> s, u |-> u]

\* start(initialState) up to its first pending await, on the engine: of
\* resume() if the new context is suspended, else of the worklet modules
StartCore(initialState, suspended) ==
  /\ startPc = "idle"
  /\ ~sess.eng.ctx
  /\ startPc' = IF suspended THEN "resuming" ELSE "loading"
  /\ sessArg' = initialState
  /\ sess' = [sess EXCEPT !.eng.ctx = TRUE,
                          !.ctxState = IF suspended THEN "suspended"
                                       ELSE "running"]

\* start(initialState) called with a state of its caller's choice
SessStart(initialState, suspended) ==
  /\ StartCore(initialState, suspended)
  /\ UNCHANGED <<stopPc, rec, wake, ui>>
  /\ UNCHANGED notSess

\* start() after resume(): with the context gone (a stop() has completed
\* meanwhile) reading ctx.audioWorklet throws and start() rejects, and so
\* does the onEnable handler awaiting it
SessResumed ==
  /\ startPc = "resuming"
  /\ IF sess.eng.ctx
     THEN /\ startPc' = "loading"
          /\ sess' = [sess EXCEPT !.ctxState = "running"]
          /\ UNCHANGED <<sessArg, ui>>
     ELSE /\ startPc' = "idle"
          /\ sessArg' = NoState
          /\ ui' = [ui EXCEPT !.waiting = <<>>]
          /\ UNCHANGED sess
  /\ UNCHANGED <<stopPc, rec, wake>>
  /\ UNCHANGED notSess

\* start() from the modules being loaded to the await of requestWakeLock;
\* with the context gone (a stop() has completed meanwhile) the first
\* createAnalyser call throws and start() rejects
SessBuild ==
  /\ startPc = "loading"
  /\ IF sess.eng.ctx
     THEN /\ Requests(wake) < MaxSentinels
          /\ sess' = [sess EXCEPT !.eng = RunningEngine,
                                  !.master = BuiltMaster(sessArg),
                                  !.generators = BuiltGenerators(sessArg)]
          /\ rec' = [NoRecorder EXCEPT !.alive = TRUE]
          /\ startPc' = "locking"
          /\ UNCHANGED <<sessArg, ui>>
     ELSE /\ startPc' = "idle"
          /\ sessArg' = NoState
          /\ ui' = [ui EXCEPT !.waiting = <<>>]
          /\ UNCHANGED <<sess, rec>>
  /\ UNCHANGED <<stopPc, wake>>
  /\ UNCHANGED notSess

\* the request of start() settles, then start() subscribes to visibility
\* and dispatches 'start'; the onEnable handler awaiting it goes on
SessStarted ==
  /\ startPc = "locking"
  /\ startPc' = "idle"
  /\ sessArg' = NoState
  /\ wake' = RequestSettled(wake)
  /\ \E s1 \in {[sess EXCEPT !.visibilityUnsubscribe = TRUE]} :
       IF ui.waiting = <<>>
       THEN sess' = s1 /\ UNCHANGED ui
       ELSE \E r \in {OnEnableRest(s1, ui, ui.waiting[1].id,
                                   ui.waiting[1].enabled)} :
              /\ sess' = r.s
              /\ ui' = [r.u EXCEPT !.waiting = <<>>]
  /\ UNCHANGED <<stopPc, rec>>
  /\ UNCHANGED notSess

\* stop() from releaseWakeLock to the await of the 80 ms fade, on the
\* engine's fields
StopToFade(s) == [s EXCEPT !.visibilityUnsubscribe = FALSE]

\* stop() up to its first pending await: of stopRecording() if the flag is
\* set and stopRecording() does not return null, else of the fade; at most
\* `most` messages are under way between the engine and the recorder
SessStopWithin(most) ==
  /\ stopPc = "idle"
  /\ sess.eng.ctx
  /\ IF sess.isRecording /\ sess.eng.recorderNode
     THEN /\ Len(rec.inbox) + Len(rec.outbox) < most
          /\ rec' = [rec EXCEPT !.handler = "stop",
                                !.inbox = Append(@, [type |-> "stop"])]
          /\ stopPc' = "recording"
          /\ UNCHANGED <<sess, wake>>
     ELSE /\ sess' = StopToFade(sess)
          /\ wake' = releaseWakeLock(wake)
          /\ stopPc' = "fading"
          /\ UNCHANGED rec
  /\ UNCHANGED <<startPc, sessArg, ui>>
  /\ UNCHANGED notSess

SessStop == SessStopWithin(MaxInbox)

\* stop() after the fade: destroy the chain, close the context, clear; the
\* promises stopRecording() has returned stay as they are
SessStopped ==
  /\ stopPc = "fading"
  /\ stopPc' = "idle"
  /\ sess' = [sess EXCEPT !.eng = NullEngine, !.ctxState = "none",
                          !.generators = <<>>]
  /\ rec' = [NoRecorder EXCEPT !.pending = rec.pending]
  /\ UNCHANGED <<startPc, sessArg, wake, ui>>
  /\ UNCHANGED notSess

\* setMasterGain(value)
SetMasterGain(value) ==
  /\ sess.eng.masterGain
  /\ sess.master # value
  /\ sess' = [sess EXCEPT !.master = value]
  /\ UNCHANGED <<startPc, stopPc, sessArg, rec, wake, ui>>
  /\ UNCHANGED notSess

\* startRecording()
StartRecording ==
  /\ sess.eng.recorderNode
  /\ ~sess.isRecording
  /\ Len(rec.inbox) < MaxInbox
  /\ sess' = [sess EXCEPT !.isRecording = TRUE]
  /\ rec' = [rec EXCEPT !.inbox = Append(@, [type |-> "start"])]
  /\ UNCHANGED <<startPc, stopPc, sessArg, wake, ui>>
  /\ UNCHANGED notSess

\* stopRecording() called by the page: the handler of the new promise
\* replaces the installed one, 'stop' is posted, and the promise is left
\* pending; at most `most` messages and pending promises
StopRecordingWithin(most) ==
  /\ sess.eng.recorderNode /\ sess.isRecording /\ sess.eng.ctx
  /\ Len(rec.inbox) + Len(rec.outbox) < most
  /\ rec.pending < most
  /\ rec' = [rec EXCEPT !.handler = "page",
                        !.pending = @ + 1,
                        !.inbox = Append(@, [type |-> "stop"])]
  /\ UNCHANGED <<startPc, stopPc, sessArg, sess, wake, ui>>
  /\ UNCHANGED notSess

StopRecording == StopRecordingWithin(MaxInbox)

\* the worklet handles the next message of its port
RecMessage ==
  /\ rec.alive
  /\ rec.inbox # <<>>
  /\ \E r \in {recOnMessage(rec, Head(rec.inbox))} :
       rec' = [rec EXCEPT !.inbox = Tail(@),
                          !.recording = r.recording,
                          !.chunks = r.chunks,
                          !.outbox = @ \o r.post,
                          !.tape = IF Head(rec.inbox).type = "start"
                                   THEN <<>> ELSE @]
  /\ UNCHANGED <<startPc, stopPc, sessArg, sess, wake, ui>>
  /\ UNCHANGED notSess

\* the audio thread gives the recorder one block
RecProcess(input) ==
  /\ rec.alive
  /\ Len(rec.tape) < MaxChunks
  /\ \E r \in {recProcess(rec, input)} :
       rec' = [rec EXCEPT !.out = r.out,
                          !.chunks = r.chunks,
                          !.tape = Append(@, input)]
  /\ UNCHANGED <<startPc, stopPc, sessArg, sess, wake, ui>>
  /\ UNCHANGED notSess

\* the handler stopRecording() installed last receives the worklet's
\* message and resolves its promise, which has an effect the first time
\* ("spent" afterwards): the page's promise is settled, or the stop()
\* awaiting it goes on to its fade
RecData ==
  /\ rec.handler # "none"
  /\ rec.outbox # <<>>
  /\ rec' = [rec EXCEPT !.outbox = Tail(@),
                        !.handler = "spent",
                        !.pending = IF rec.handler = "page" THEN @ - 1 ELSE @]
  /\ IF rec.handler = "stop"
     THEN /\ sess' = StopToFade([sess EXCEPT !.isRecording = FALSE])
          /\ wake' = releaseWakeLock(wake)
          /\ stopPc' = "fading"
     ELSE /\ sess' = [sess EXCEPT !.isRecording = FALSE]
          /\ UNCHANGED <<stopPc, wake>>
  /\ UNCHANGED <<startPc, sessArg, ui>>
  /\ UNCHANGED notSess

\* the page is hidden: the platform releases every screen wake lock, and
\* the 'release' listener of a released sentinel clears the variable
PageHidden ==
  /\ wake.visible
  /\ wake' = [wake EXCEPT !.visible = FALSE,
                          !.live = {},
                          !.wakeLock = IF wake.live = {} THEN @ ELSE 0]
  /\ UNCHANGED <<startPc, stopPc, sessArg, sess, rec, ui>>
  /\ UNCHANGED notSess

\* the page is shown: the callback subscribed by start(), if any, calls
\* requestWakeLock() when the engine has a context
PageShown ==
  /\ ~wake.visible
  /\ wake.pending < MaxPending
  /\ Requests(wake) + (IF startPc = "locking" THEN 1 ELSE 0) < MaxSentinels
  /\ wake' = [wake EXCEPT !.visible = TRUE,
                          !.pending = IF sess.visibilityUnsubscribe
                                         /\ sess.eng.ctx
                                      THEN @ + 1 ELSE @]
  /\ UNCHANGED <<startPc, stopPc, sessArg, sess, rec, ui>>
  /\ UNCHANGED notSess

\* the request of a visibility callback settles
CallbackSettled ==
  /\ wake.pending > 0
  /\ wake' = RequestSettled([wake EXCEPT !.pending = @ - 1])
  /\ UNCHANGED <<startPc, stopPc, sessArg, sess, rec, ui>>
  /\ UNCHANGED notSess

\* the platform releases one sentinel; its 'release' listener runs
SentinelReleased(id) ==
  /\ id \in wake.live
  /\ wake' = [wake EXCEPT !.live = @ \ {id}, !.wakeLock = 0]
  /\ UNCHANGED <<startPc, stopPc, sessArg, sess, rec, ui>>
  /\ UNCHANGED notSess

NextWake ==
  \/ \E a \in SessStates, suspended \in BOOLEAN : SessStart(a, suspended)
  \/ SessResumed
  \/ SessBuild
  \/ SessStarted
  \/ SessStop
  \/ SessStopped
  \/ PageHidden
  \/ PageShown
  \/ CallbackSettled
  \/ \E id \in wake.live : SentinelReleased(id)

SpecWake == Init /\ [][NextWake]_vars

\* ---------------------------------------------------------------- the page
\* readStateFromUI(): the checkboxes, and the knobs at their initial values
readStateFromUI(u) ==
  [hasState |-> TRUE, hasMaster |-> TRUE, masterGain |-> u.master,
   formulas |-> [id \in SessFormulas |->
                   [enabled |-> u.checked[id],
                    params |-> [gain |-> u.gain[id]]]]]

\* the checkbox of a formula changes and its onEnable handler runs up to
\* its end, or up to the await of a start() that does not return at once
OnEnable(id, suspended) ==
  \E u1 \in {[ui EXCEPT !.checked[id] = ~ui.checked[id],
                         !.applied = FALSE]} :
    IF u1.checked[id] /\ ~isRunning(sess)
    THEN IF sess.eng.ctx
         THEN \E r \in {OnEnableRest(sess, u1, id, TRUE)} :
                /\ sess' = r.s
                /\ ui' = r.u
                /\ UNCHANGED <<startPc, stopPc, sessArg, rec, wake>>
                /\ UNCHANGED notSess
         ELSE /\ StartCore(readStateFromUI(u1), suspended)
              /\ ui' = [u1 EXCEPT !.waiting = <<[id |-> id, enabled |-> TRUE]>>]
              /\ UNCHANGED <<stopPc, rec, wake>>
              /\ UNCHANGED notSess
    ELSE \E r \in {OnEnableRest(sess, u1, id, u1.checked[id])} :
           /\ sess' = r.s
           /\ ui' = r.u
           /\ UNCHANGED <<startPc, stopPc, sessArg, rec, wake>>
           /\ UNCHANGED notSess

NextPage ==
  \/ \E id \in SessFormulas, suspended \in BOOLEAN : OnEnable(id, suspended)
  \/ SessResumed
  \/ SessBuild
  \/ SessStarted

SpecPage == Init /\ [][NextPage]_vars

\* ---------------------------------------------------------------- a knob
\* Math.round(v / step) * step: halves go up
SnapToStep(v, step) == ((2 * v + step) \div (2 * step)) * step

\* updateKnobValue(newValue, fireChange) on the knob k, by the operation op
updateKnobValue(k, newValue, fireChange, op) ==
  LET clamped == Max(k.min, Min(k.max, newValue))
      snapped == SnapToStep(clamped, k.step)
  IN IF snapped = k.value
     THEN [k EXCEPT !.op = op, !.fired = FALSE]
     ELSE [k EXCEPT !.value = snapped, !.op = op, !.fired = fireChange]

\* the knobs tried, as (min, max, step, value): steps that divide min and
\* max, and a step that does not divide max
KnobConfigs ==
  {<<0, 1000, 250, 250>>, <<100, 900, 100, 500>>, <<0, 1000, 400, 400>>}

\* the value changes a drag asks for, and the values updateKnob is given
DragDeltas == {-2000, -300, 130, 600, 2000}
KnobInputs == {-100, 0, 250, 990, 1000, 5000}

InitKnob ==
  /\ EngineIdle
  /\ codec = NoCodec
  /\ wake = NoWakeLock
  /\ startPc = "idle"
  /\ stopPc = "idle"
  /\ sessArg = NoState
  /\ sess = NoSession
  /\ rec = NoRecorder
  /\ \E c \in KnobConfigs :
       ui = [NoPage EXCEPT !.knob = NewKnob(c[1], c[2], c[3], c[4])]

notPage == <<startPc, stopPc, sessArg, sess, rec, wake>>

\* mousedown / touchstart on the knob
HandleDragStart ==
  /\ ui' = [ui EXCEPT !.knob.isDragging = TRUE,
                      !.knob.startValue = ui.knob.value,
                      !.knob.op = "dragstart", !.knob.fired = FALSE]
  /\ UNCHANGED <<notPage, notSess>>

\* mousemove / touchmove during a drag
HandleDragMove(deltaValue) ==
  /\ ui.knob.isDragging
  /\ ui' = [ui EXCEPT !.knob = updateKnobValue(ui.knob,
                                  ui.knob.startValue + deltaValue, TRUE, "drag")]
  /\ UNCHANGED <<notPage, notSess>>

\* mouseup / touchend
HandleDragEnd ==
  /\ ui.knob.isDragging
  /\ ui' = [ui EXCEPT !.knob.isDragging = FALSE,
                      !.knob.op = "dragend", !.knob.fired = FALSE]
  /\ UNCHANGED <<notPage, notSess>>

\* dblclick: back to the default value
HandleDoubleClick ==
  /\ ui' = [ui EXCEPT !.knob = updateKnobValue(ui.knob, ui.knob.defaultValue,
                                               TRUE, "dblclick")]
  /\ UNCHANGED <<notPage, notSess>>

\* wheel: 5 steps up or down, half a step with Shift
HandleWheel(up, shiftKey) ==
  /\ LET size == IF shiftKey THEN ui.knob.step \div 2 ELSE 5 * ui.knob.step
         delta == IF up THEN size ELSE -size
     IN ui' = [ui EXCEPT !.knob = updateKnobValue(ui.knob, ui.knob.value + delta,
                                                  TRUE, "wheel")]
  /\ UNCHANGED <<notPage, notSess>>

\* updateKnob(knob, value): a programmatic update
UpdateKnob(value) ==
  /\ ui' = [ui EXCEPT !.knob = updateKnobValue(ui.knob, value, FALSE, "update")]
  /\ UNCHANGED <<notPage, notSess>>

NextKnob ==
  \/ HandleDragStart
  \/ \E d \in DragDeltas : HandleDragMove(d)
  \/ HandleDragEnd
  \/ HandleDoubleClick
  \/ \E up \in BOOLEAN, shiftKey \in BOOLEAN : HandleWheel(up, shiftKey)
  \/ \E v \in KnobInputs : UpdateKnob(v)

SpecKnob == InitKnob /\ [][NextKnob]_vars

\* -------------------------------------------------------------- the presets
\* the states the preset list and localStorage hold: one that enables
\* gliss with its own gain and master gain, one equal to the page as loaded
\* with fm enabled
PresetStates ==
  {[hasState |-> TRUE, hasMaster |-> TRUE, masterGain |-> 514,
    formulas |-> [id \in SessFormulas |->
                    [enabled |-> (id = "gliss"), params |-> [gain |-> 474]]]],
   [hasState |-> TRUE, hasMaster |-> TRUE, masterGain |-> MasterDefault,
    formulas |-> [id \in SessFormulas |->
                    [enabled |-> (id = "fm"),
                     params |-> [gain |-> SliderValue]]]]}

\* applyStateToUI(appState): updateKnob and updateFormulaCard set the knobs
\* and the checkboxes without firing onChange or a 'change' event
applyStateToUI(u, appState) ==
  [u EXCEPT !.master = appState.masterGain,
            !.checked = [id \in SessFormulas |-> appState.formulas[id].enabled],
            !.gain = [id \in SessFormulas |-> appState.formulas[id].params.gain]]

\* the loadPresetBtn / presetSelect handler: applyStateToUI and, if the
\* engine is running, updateEffects(readFXFromUI()), which leaves the
\* master gain and the generators alone
LoadPreset(appState) ==
  /\ ui' = [applyStateToUI(ui, appState) EXCEPT
              !.applied = isRunning(sess) /\ sess.eng.effectsChain]
  /\ ui' # ui
  /\ UNCHANGED <<startPc, stopPc, sessArg, sess, rec, wake>>
  /\ UNCHANGED notSess

NextPreset ==
  \/ \E id \in SessFormulas, suspended \in BOOLEAN : OnEnable(id, suspended)
  \/ SessResumed
  \/ SessBuild
  \/ SessStarted
  \/ \E a \in PresetStates : LoadPreset(a)

SpecPreset == Init /\ [][NextPreset]_vars

NextRec ==
  \/ \E a \in SessStates, suspended \in BOOLEAN : SessStart(a, suspended)
  \/ SessResumed
  \/ SessBuild
  \/ SessStarted
  \/ SessStop
  \/ SessStopped
  \/ SetMasterGain(MasterInput)
  \/ StartRecording
  \/ StopRecording
  \/ RecMessage
  \/ \E input \in RecInputs : RecProcess(input)
  \/ RecData

SpecRec == Init /\ [][NextRec]_vars

\* ------------------------------------------------- overlapping stop() calls
\* stop() after its fade up to the await of ctx.close(): the chain is
\* destroyed and the context asked to close
SessFaded ==
  /\ stopPc = "fading"
  /\ stopPc' = "closing"
  /\ UNCHANGED <<startPc, sessArg, sess, rec, wake, ui>>
  /\ UNCHANGED notSess

\* stop() after ctx.close() has resolved: the references are cleared
SessClosed ==
  /\ stopPc = "closing"
  /\ stopPc' = "idle"
  /\ sess' = [sess EXCEPT !.eng = NullEngine, !.ctxState = "none",
                          !.generators = <<>>]
  /\ rec' = NoRecorder
  /\ UNCHANGED <<startPc, sessArg, wake, ui>>
  /\ UNCHANGED notSess

\* a second stop() called while the first is in its fade or closing: the
\* context is still set, so it goes on to its own fade
SessStopAgain ==
  /\ stopPc \in {"fading", "closing"}
  /\ sess.eng.ctx /\ ~sess.isRecording
  /\ ~sess.stopAgain
  /\ sess' = [StopToFade(sess) EXCEPT !.stopAgain = TRUE]
  /\ wake' = releaseWakeLock(wake)
  /\ UNCHANGED <<startPc, stopPc, sessArg, rec, ui>>
  /\ UNCHANGED notSess

\* the second stop() after its fade, its timer firing after that of the
\* first: this.ctx.close() throws if the first has cleared the context,
\* is a second close() of the context the first is closing, or closes the
\* context of a start() called in between and clears its references
SessStopAgainFaded ==
  /\ sess.stopAgain
  /\ stopPc # "fading"
  /\ IF sess.eng.ctx /\ stopPc = "idle"
     THEN /\ sess' = [sess EXCEPT !.eng = NullEngine, !.ctxState = "none",
                                  !.generators = <<>>, !.stopAgain = FALSE]
          /\ rec' = NoRecorder
     ELSE /\ sess' = [sess EXCEPT !.stopAgain = FALSE]
          /\ UNCHANGED rec
  /\ UNCHANGED <<startPc, stopPc, sessArg, wake, ui>>
  /\ UNCHANGED notSess

NextStop ==
  \/ \E a \in SessStates, suspended \in BOOLEAN : SessStart(a, suspended)
  \/ SessResumed
  \/ SessBuild
  \/ SessStarted
  \/ SessStop
  \/ SessFaded
  \/ SessClosed
  \/ SessStopAgain
  \/ SessStopAgainFaded

SpecStop == Init /\ [][NextStop]_vars

\* ------------------------------------------- overlapping stopRecording() calls
MaxStops == 2

NextStopRec ==
  \/ \E suspended \in BOOLEAN : SessStart(NoState, suspended)
  \/ SessResumed
  \/ SessBuild
  \/ SessStarted
  \/ SessStopWithin(MaxStops)
  \/ SessStopped
  \/ StartRecording
  \/ StopRecordingWithin(MaxStops)
  \/ RecMessage
  \/ RecData

\* a message posted to a port is delivered, and the 80 ms timer fires
SpecStopRec ==
  /\ Init
  /\ [][NextStopRec]_vars
  /\ WF_vars(RecMessage)
  /\ WF_vars(RecData)
  /\ WF_vars(SessStopped)

\* ------------------------------------------------------- the URL state codec
MaxLen == 3

\* strings are sequences of UTF-16 code units; the units tried: 'A', e
\* acute, the two halves of a surrogate pair, and U+FEFF
CodeUnits == {65, 233, 55357, 56832, 65279}
Replacement == 65533
ByteOrderMark == 65279

Strings == UNION {[1..n -> CodeUnits] : n \in 0..MaxLen}

IsHigh(c) == c >= 55296 /\ c <= 56319
IsLow(c) == c >= 56320 /\ c <= 57343

\* the UTF-8 bytes of one code point
Utf8Of(cp) ==
  IF cp < 128 THEN <<cp>>
  ELSE IF cp < 2048 THEN <<192 + (cp \div 64), 128 + (cp % 64)>>
  ELSE IF cp < 65536
  THEN <<224 + (cp \div 4096), 128 + ((cp \div 64) % 64), 128 + (cp % 64)>>
  ELSE <<240 + (cp \div 262144), 128 + ((cp \div 4096) % 64),
         128 + ((cp \div 64) % 64), 128 + (cp % 64)>>

RECURSIVE TextEncode(_)
\* new TextEncoder().encode(str): a surrogate pair is one code point, an
\* unpaired surrogate is encoded as U+FFFD
TextEncode(str) ==
  IF str = <<>> THEN <<>>
  ELSE IF IsHigh(str[1]) /\ Len(str) > 1 /\ IsLow(str[2])
  THEN Utf8Of(65536 + (str[1] - 55296) * 1024 + (str[2] - 56320))
         \o TextEncode(Tail(Tail(str)))
  ELSE IF IsHigh(str[1]) \/ IsLow(str[1])
  THEN Utf8Of(Replacement) \o TextEncode(Tail(str))
  ELSE Utf8Of(str[1]) \o TextEncode(Tail(str))

\* the code units of one decoded code point
UnitsOf(cp) ==
  IF cp < 65536 THEN <<cp>>
  ELSE <<55296 + ((cp - 65536) \div 1024), 56320 + ((cp - 65536) % 1024)>>

IsCont(bytes, i) == i <= Len(bytes) /\ bytes[i] >= 128 /\ bytes[i] < 192

\* bytes without their first n
Drop(seq, n) == SubSeq(seq, n + 1, Len(seq))

RECURSIVE Utf8Decode(_)
\* the UTF-8 decoder: a well-formed sequence gives its code point, any other
\* byte gives U+FFFD
Utf8Decode(bytes) ==
  IF bytes = <<>> THEN <<>>
  ELSE IF bytes[1] < 128
  THEN <<bytes[1]>> \o Utf8Decode(Tail(bytes))
  ELSE IF bytes[1] >= 194 /\ bytes[1] < 224 /\ IsCont(bytes, 2)
  THEN <<(bytes[1] - 192) * 64 + (bytes[2] - 128)>>
         \o Utf8Decode(Drop(bytes, 2))
  ELSE IF bytes[1] >= 224 /\ bytes[1] < 240
          /\ IsCont(bytes, 2) /\ IsCont(bytes, 3)
          /\ (bytes[1] - 224) * 4096 + (bytes[2] - 128) * 64 >= 2048
          /\ ~IsHigh((bytes[1] - 224) * 4096 + (bytes[2] - 128) * 64)
          /\ ~IsLow((bytes[1] - 224) * 4096 + (bytes[2] - 128) * 64)
  THEN <<(bytes[1] - 224) * 4096 + (bytes[2] - 128) * 64 + (bytes[3] - 128)>>
         \o Utf8Decode(Drop(bytes, 3))
  ELSE IF bytes[1] >= 240 /\ bytes[1] < 245
          /\ IsCont(bytes, 2) /\ IsCont(bytes, 3) /\ IsCont(bytes, 4)
          /\ (bytes[1] - 240) * 262144 + (bytes[2] - 128) * 4096 >= 65536
          /\ (bytes[1] - 240) * 262144 + (bytes[2] - 128) * 4096 < 1114112
  THEN UnitsOf((bytes[1] - 240) * 262144 + (bytes[2] - 128) * 4096
                 + (bytes[3] - 128) * 64 + (bytes[4] - 128))
         \o Utf8Decode(Drop(bytes, 4))
  ELSE <<Replacement>> \o Utf8Decode(Tail(bytes))

\* new TextDecoder().decode(bytes): UTF-8, not fatal, a leading byte order
\* mark is dropped
TextDecode(bytes) ==
  IF Len(bytes) >= 3 /\ SubSeq(bytes, 1, 3) = Utf8Of(ByteOrderMark)
  THEN Utf8Decode(Drop(bytes, 3))
  ELSE Utf8Decode(bytes)

\* the base64 alphabet
B64 ==
  <<"A", "B", "C", "D", "E", "F", "G", "H", "I", "J", "K", "L", "M", "N", "O",
    "P", "Q", "R", "S", "T", "U", "V", "W", "X", "Y", "Z", "a", "b", "c", "d",
    "e", "f", "g", "h", "i", "j", "k", "l", "m", "n", "o", "p", "q", "r", "s",
    "t", "u", "v", "w", "x", "y", "z", "0", "1", "2", "3", "4", "5", "6", "7",
    "8", "9", "+", "/">>

Digit(c) == CHOOSE k \in 0..63 : B64[k + 1] = c

RECURSIVE btoa(_)
\* btoa(bin), the characters of bin being the bytes
btoa(bytes) ==
  IF bytes = <<>> THEN <<>>
  ELSE IF Len(bytes) = 1
  THEN <<B64[(bytes[1] \div 4) + 1], B64[((bytes[1] % 4) * 16) + 1],
         "=", "=">>
  ELSE IF Len(bytes) = 2
  THEN <<B64[(bytes[1] \div 4) + 1],
         B64[((bytes[1] % 4) * 16) + (bytes[2] \div 16) + 1],
         B64[((bytes[2] % 16) * 4) + 1], "=">>
  ELSE <<B64[(bytes[1] \div 4) + 1],
         B64[((bytes[1] % 4) * 16) + (bytes[2] \div 16) + 1],
         B64[((bytes[2] % 16) * 4) + (bytes[3] \div 64) + 1],
         B64[(bytes[3] % 64) + 1]>> \o btoa(Drop(bytes, 3))

RECURSIVE atob(_)
\* atob(b64) of a padded text whose length is a multiple of 4
atob(b64) ==
  IF b64 = <<>> THEN <<>>
  ELSE IF b64[3] = "="
  THEN <<(Digit(b64[1]) * 4) + (Digit(b64[2]) \div 16)>>
  ELSE IF b64[4] = "="
  THEN <<(Digit(b64[1]) * 4) + (Digit(b64[2]) \div 16),
         ((Digit(b64[2]) % 16) * 16) + (Digit(b64[3]) \div 4)>>
  ELSE <<(Digit(b64[1]) * 4) + (Digit(b64[2]) \div 16),
         ((Digit(b64[2]) % 16) * 16) + (Digit(b64[3]) \div 4),
         ((Digit(b64[3]) % 4) * 64) + Digit(b64[4])>> \o atob(Drop(b64, 4))

\* text.replace(/from/g, to) for one character
ReplaceAll(text, from, to) ==
  [k \in 1..Len(text) |-> IF text[k] = from THEN to ELSE text[k]]

RECURSIVE StripPadding(_)
\* text.replace(/=+$/, '')
StripPadding(text) ==
  IF text # <<>> /\ text[Len(text)] = "="
  THEN StripPadding(SubSeq(text, 1, Len(text) - 1))
  ELSE text

\* b64urlEncode leaving '/' in place
b64urlEncodeKeepsSlash(str) ==
  StripPadding(ReplaceAll(btoa(TextEncode(str)), "+", "-"))

\* b64urlEncode(str)
b64urlEncode(str) ==
  StripPadding(ReplaceAll(ReplaceAll(btoa(TextEncode(str)), "+", "-"),
                          "/", "_"))

\* the '=' characters b64urlDecode appends
Pad(n) == IF (n % 4) = 0 THEN <<>> ELSE [k \in 1..(4 - (n % 4)) |-> "="]

\* b64urlDecode(b64u)
b64urlDecode(b64u) ==
  LET b64 == ReplaceAll(ReplaceAll(b64u, "-", "+"), "_", "/")
  IN TextDecode(atob(b64 \o Pad(Len(b64))))

\* the characters of the class [A-Za-z0-9\-_]
UrlSafe == ({B64[k] : k \in 1..64} \ {"+", "/"}) \cup {"-", "_"}

RECURSIVE Matched(_)
\* the group ([A-Za-z0-9\-_]+) matched at the start of a text
Matched(text) ==
  IF text # <<>> /\ text[1] \in UrlSafe
  THEN <<text[1]>> \o Matched(Tail(text))
  ELSE <<>>

\* a string under test in its initial state
InitCodec ==
  /\ EngineIdle
  /\ SessIdle
  /\ \E str \in Strings : codec = [NoCodec EXCEPT !.stage = "string", !.str = str]

notCodec == <<fxVars, genVars, sessVars>>

\* writeStateToURL: the JSON text is encoded and the hash replaced
WriteStateToURL ==
  /\ codec.stage = "string"
  /\ \E token \in {b64urlEncode(codec.str)} :
       codec' = [codec EXCEPT !.stage = "written", !.token = token,
                              !.hash = <<"#", "s", "=">> \o token]
  /\ UNCHANGED notCodec

\* b64urlDecode applied to the token
DecodeToken ==
  /\ codec.stage = "written"
  /\ codec' = [codec EXCEPT !.stage = "decoded",
                            !.decoded = b64urlDecode(codec.token)]
  /\ UNCHANGED notCodec

\* loadStateFromURL up to JSON.parse: null if the hash does not match
LoadStateFromURL ==
  /\ codec.stage = "decoded"
  /\ \E m \in {Matched(Drop(codec.hash, 3))} :
       IF m = <<>>
       THEN codec' = [codec EXCEPT !.stage = "loaded", !.isNull = TRUE]
       ELSE codec' = [codec EXCEPT !.stage = "loaded",
                                   !.loaded = b64urlDecode(m)]
  /\ UNCHANGED notCodec

NextCodec ==
  \/ WriteStateToURL
  \/ DecodeToken
  \/ LoadStateFromURL

SpecCodec == InitCodec /\ [][NextCodec]_vars

\* -------------------------------------------------------- the effect mixes
MixValues == {0, 250}

\* the effects states tried with varying mixes
MixStates ==
  {[filterOn |-> FALSE, chorusOn |-> c, phaserOn |-> c, delayOn |-> d,
    reverbOn |-> d, limiterOn |-> FALSE,
    chorusMix |-> m, phaserMix |-> Unit - m, delayMix |-> n,
    reverbMix |-> Unit - n, phaserStages |-> PhaserStages,
    reverbDecay |-> ReverbDecay] :
     c \in BOOLEAN, d \in BOOLEAN, m \in MixValues, n \in MixValues}

MixInitialStates ==
  {NoArg} \cup {[hasState |-> TRUE, hasFx |-> TRUE, fx |-> f] : f \in MixStates}

\* updateEffectParams(state)
UpdateEffectParams(state) ==
  /\ eng.effectsChain
  /\ fx.params # state
  /\ fx' = updateParams(fx, state)
  /\ UNCHANGED <<pc, startArg, eng, edges, rebuilds, wired, created, repeated>>
  /\ UNCHANGED <<genVars, restVars>>

NextMix ==
  \/ \E a \in MixInitialStates : StartCall(a)
  \/ StartBuild
  \/ StartFinish
  \/ \E f \in MixStates : UpdateEffects(f)
  \/ \E f \in MixStates : UpdateEffectParams(f)
  \/ StopCall
  \/ StopFinish

SpecMix == Init /\ [][NextMix]_vars

\* ------------------------------------- the phaser stages and the reverb decay
\* two options of the stages select and two settings of the decay and mix
\* knobs of the reverb
StageInputs == {2, 12}
DecayInputs == {2800, 5000}
ReverbMixInputs == {250, 600}

\* the effects states tried with varying stages, decay and reverb mix
KnobStates ==
  {[filterOn |-> FALSE, chorusOn |-> FALSE, phaserOn |-> on, delayOn |-> FALSE,
    reverbOn |-> on, limiterOn |-> FALSE,
    chorusMix |-> ChorusMix, phaserMix |-> PhaserMix, delayMix |-> DelayMix,
    reverbMix |-> mix, phaserStages |-> st, reverbDecay |-> dc] :
     on \in BOOLEAN, mix \in ReverbMixInputs,
     st \in StageInputs, dc \in DecayInputs}

KnobInitialStates ==
  {NoArg} \cup {[hasState |-> TRUE, hasFx |-> TRUE, fx |-> f] : f \in KnobStates}

NextKnobs ==
  \/ \E a \in KnobInitialStates : StartCall(a)
  \/ StartBuild
  \/ StartFinish
  \/ \E f \in KnobStates : UpdateEffects(f)
  \/ \E f \in KnobStates : UpdateEffectParams(f)
  \/ StopCall
  \/ StopFinish

SpecKnobs == Init /\ [][NextKnobs]_vars

\* ------------------------------------------------ reading the audio graph
RECURSIVE Reach(_, _, _, _, _)
\* the nodes reached from `seen` along the connections E, read from end
\* `from` to end `to`; `front` are the nodes found by the latest round
Reach(E, from, to, seen, front) ==
  IF front = {} THEN seen
  ELSE LET found == {e[to] : e \in {x \in E : x[from] \in front}} \ seen
       IN Reach(E, from, to, seen \cup found, found)

\* the nodes a signal entering at the nodes S reaches
Forward(E, S) == Reach(E, 1, 2, S, S)

\* the nodes from which a signal reaches the nodes S
Backward(E, S) == Reach(E, 2, 1, S, S)

\* the nodes on a path from the chain input to the chain output
OnPath(E) == Forward(E, {inputNode}) \cap Backward(E, {outputNode})

\* the slot of a node in the canonical order; 0 = chain input, 7 = chain output
StageOfName ==
  [n \in {"fx.input"} |-> 0]
  @@ [n \in {"filter.node"} |-> 1]
  @@ [n \in {"chorus.dry", "chorus.wet", "chorus.delay", "chorus.feedback",
             "chorusSum"} |-> 2]
  @@ [n \in {"phaser.dry", "phaser.wet", "phaser.feedback", "phaser.input",
             "phaser.output", "phaser.filter", "phaserSum"} |-> 3]
  @@ [n \in {"delay.dry", "delay.wet", "delay.delay", "delay.feedback",
             "delaySum"} |-> 4]
  @@ [n \in {"reverb.convolver", "reverb.dry", "reverb.wet", "reverbSum"} |-> 5]
  @@ [n \in {"limiter.compressor"} |-> 6]
  @@ [n \in {"fx.output"} |-> 7]

StageOf(n) == StageOfName[n[1]]

\* the nodes the effect objects own (the summing nodes are locals of rebuild)
StageNodes(i) ==
  CASE i = 1 -> {filterNode}
    [] i = 2 -> {chorusDry, chorusWet, chorusDelay, chorusFeedback}
    [] i = 3 -> {phaserDry, phaserWet, phaserFeedback, phaserInput, phaserOutput}
                \cup {allFilters[k] : k \in 1..MAX_STAGES}
    [] i = 4 -> {delayDry, delayWet, delayDelay, delayFeedback}
    [] i = 5 -> {reverbConvolver, reverbDry, reverbWet}
    [] i = 6 -> {limiterNode}

ChainNodes ==
  {inputNode, outputNode} \cup UNION {StageNodes(i) : i \in 1..6}

StageOn(f, i) ==
  CASE i = 1 -> f.filterOn
    [] i = 2 -> f.chorusOn
    [] i = 3 -> f.phaserOn
    [] i = 4 -> f.delayOn
    [] i = 5 -> f.reverbOn
    [] i = 6 -> f.limiterOn

\* the slot that follows slot i on the path: the next enabled one, or the output
NextEnabled(f, i) ==
  LET later == {j \in (i + 1)..6 : StageOn(f, j)}
  IN IF later = {} THEN 7 ELSE CHOOSE j \in later : \A k \in later : j <= k

\* ==================================================================== C1
\* C1: after any sequence of updateEffects/rebuild calls the stages on the
\* signal path from chain input to chain output are exactly the enabled
\* ones, and every connection of the path that leaves a slot leads to the
\* next enabled slot of the order Filter, Chorus, Phaser, Delay, Reverb,
\* Limiter (or to the chain output after the last one).
C1_CanonicalOrder ==
  rebuilds > 0 =>
    LET P == OnPath(edges)
    IN /\ \A e \in edges :
            (e[1] \in P /\ e[2] \in P) =>
              \/ StageOf(e[1]) = StageOf(e[2])
              \/ StageOf(e[2]) = NextEnabled(wired, StageOf(e[1]))
       /\ {StageOf(n) : n \in P} \cap (1..6) = {i \in 1..6 : StageOn(wired, i)}

\* a second rebuild has wired Delay and Reverb without the filter, and a
\* summing node of the first rebuild is still connected
C1_Witness ==
  /\ rebuilds = 2
  /\ ~wired.filterOn /\ wired.delayOn /\ wired.reverbOn
  /\ \E e \in edges : IsSum(e[1]) /\ e[1][2] = 1

\* ==================================================================== C2
\* C2: after every rebuild each enabled stage is entered from exactly one
\* node, the chain output has exactly one incoming connection, and no
\* summing node of an earlier rebuild is still connected into the chain.
C2_SingleSeriesChain ==
  rebuilds > 0 =>
    /\ Cardinality({e \in edges : e[2] = outputNode}) = 1
    /\ \A e \in edges : IsSum(e[1]) => e[1][2] = rebuilds
    /\ \A i \in 1..6 :
         StageOn(wired, i) =>
           Cardinality({e[1] : e \in {x \in edges :
                          x[2] \in StageNodes(i) /\ StageOf(x[1]) # i}}) = 1

\* ==================================================================== C3
\* C3: after a rebuild in which a stage's flag is false, no node of that
\* stage is connected from or to a node on the path between chain input
\* and chain output.
C3_DisabledBypassed ==
  rebuilds > 0 =>
    LET P == OnPath(edges)
        Off == UNION {StageNodes(i) : i \in {j \in 1..6 : ~StageOn(wired, j)}}
    IN \A e \in edges :
         /\ e[1] \in Off => e[2] \notin P
         /\ e[2] \in Off => e[1] \notin P

\* the delay was wired by the first rebuild behind a chorus and is disabled
\* by the second: the old chorus summing node still points at the delay
C3_Witness ==
  /\ rebuilds = 2
  /\ ~wired.delayOn /\ wired.chorusOn
  /\ <<SumNode("chorusSum", 1), delayDry>> \in edges
  /\ outputNode \in Forward(edges, {inputNode})

\* ==================================================================== C4
\* what a rebuild leaves among chain input, stage nodes and chain output:
\* the connections between these nodes, and the connections that carry the
\* signal of the chain input, the summing nodes named by their role (0 =
\* made by the latest rebuild, -1 = made by an earlier one)
ChainView(E, g) ==
  LET F == Forward(E, {inputNode})
      View(n) == IF IsSum(n) THEN <<n[1], IF n[2] = g THEN 0 ELSE -1>> ELSE n
  IN {<<View(e[1]), View(e[2])>> :
        e \in {x \in E : \/ x[1] \in ChainNodes /\ x[2] \in ChainNodes
                         \/ x[1] \in F /\ (x[1] \in ChainNodes \/ IsSum(x[1]))}}

\* C4: a rebuild with the same EffectsState as the rebuild before it leaves
\* the same connections among chain input, stage nodes and chain output.
C4_RebuildIdempotent ==
  [][(rebuilds > 0 /\ rebuilds' = rebuilds + 1 /\ wired' = wired)
       => ChainView(edges', rebuilds') = ChainView(edges, rebuilds)]_vars

\* the same state with chorus and reverb enabled has been wired twice running
C4_Witness ==
  /\ rebuilds = 2
  /\ repeated
  /\ wired.chorusOn /\ wired.reverbOn
  /\ <<chorusDry, SumNode("chorusSum", 2)>> \in edges

\* ==================================================================== C5
\* C5: updateEffects with the enable flags that are already wired removes
\* no connection and creates no connection or node.
C5_ConsistentRebuildNoOp ==
  [][(rebuilds > 0 /\ rebuilds' = rebuilds + 1 /\ wired' = wired)
       => (edges' = edges /\ created' = created)]_vars

\* ==================================================================== C6
\* C6: whenever start() has completed and stop() has not begun, a signal
\* entering the mix bus reaches the master gain through the chain input and
\* the chain output.
C6_PathWhileRunning ==
  pc = "running" =>
    /\ <<mixBusNode, inputNode>> \in edges
    /\ outputNode \in Forward(edges, {inputNode})
    /\ <<outputNode, masterGainNode>> \in edges

\* ==================================================================== C7
\* what C7 asks of one process() call: every sample 0, the return value
\* true, and t advanced by one sample period per sample
SilentBlock ==
  /\ Len(lastBlock'.out) = BlockLen
  /\ \A i \in 1..BlockLen : lastBlock'.out[i] = 0
  /\ lastBlock'.ret
  /\ proc'.t = proc.t + BlockLen

C8_AllIdsDispatched ==
  (blocks > 0 /\ proc.formula \in FormulaId) => lastBlock.taken = {proc.formula}

\* ==================================================================== C9
AttractorsAtOrigin(this) ==
  /\ this.lx = 100 /\ this.ly = 0 /\ this.lz = 0
  /\ this.rx = 100 /\ this.ry = 0 /\ this.rz = 0
  /\ this.t = 0 /\ this.phase = 0

\* C9: handling a reset message leaves the Lorenz coordinates at
\* (0.1, 0, 0), the Rossler coordinates at (0.1, 0, 0) and t and phase at 0,
\* and they stay there until the next sample is produced (t = 0).
C9_ResetRoundTrip ==
  /\ [](proc.t = 0 => AttractorsAtOrigin(proc))
  /\ [][(port # <<>> /\ Head(port).type = "reset" /\ port' = Tail(port))
          => AttractorsAtOrigin(proc')]_vars

\* a Rossler generator has rendered at least one block and has then handled
\* a reset
C9_Witness ==
  /\ proc.formula = "rossler"
  /\ blocks > 0
  /\ proc.t = 0
  /\ port = <<>>

\* =================================================================== C10
\* C10: the sample the generator writes is the unscaled x, and what the
\* mixer gain node passes on to the mix bus, once its gate has settled open,
\* is x times the gain parameter.
C10_GainAppliedOnce ==
  blocks > 0 =>
    /\ lastBlock.out = lastBlock.raw
    /\ (port = <<>> /\ gen.gainValue > 0 /\ gen.gainValue = gen.params.gain) =>
         \A i \in 1..Len(lastBlock.out) :
           Mul(lastBlock.out[i], gen.gainValue)
             = Mul(lastBlock.raw[i], proc.p.gain)

\* =================================================================== C11
\* C11: an enableFormula call changes the target of the mixer gain node and
\* nothing else (no message, no parameter, no processor state); every
\* process() block advances t by one sample period per sample whatever the
\* gain target is; and t goes back only when a reset message is handled.
C11_EnableOnlyGates ==
  /\ [][(\E b \in BOOLEAN : EnableFormula(b))
          => /\ port' = port /\ proc' = proc
             /\ gen'.params = gen.params /\ gen'.gainValue = gen.gainValue]_vars
  /\ [][(blocks' = blocks + 1) => proc'.t = proc.t + BlockLen]_vars
  /\ [][(proc'.t < proc.t)
          => (port # <<>> /\ Head(port).type = "reset" /\ proc'.t = 0)]_vars

\* a generator that was enabled has been disabled again, its fade-out is
\* still pending, and its clock has run through every block rendered
C11_Witness ==
  /\ gen.gainTarget = 0 /\ gen.gainValue = gen.params.gain
  /\ blocks = MaxBlocks
  /\ proc.t = MaxBlocks * BlockLen
  /\ port = <<>>

\* =================================================================== C12
\* C12: from an enableFormula(id, false) call until the next
\* enableFormula(id, true) call the target of the generator's mixer gain
\* node is 0, whatever updateFormulaParam calls are made in between.
C12_DisabledStaysSilent ==
  ~gen.enabled => gen.gainTarget = 0

\* =================================================================== C13
\* C13: handling a 'set' message with the parameter keys K gives the
\* entries K of the parameter map the message's values and leaves every
\* other entry and every other field of the processor as it was; handling
\* the same message once more changes nothing.
C13_SetMergesOnly ==
  [][(port # <<>> /\ Head(port).type = "set" /\ port' = Tail(port))
       => LET m == Head(port).params
          IN /\ DOMAIN proc'.p = DOMAIN proc.p \cup DOMAIN m
             /\ \A k \in DOMAIN m : proc'.p[k] = m[k]
             /\ \A k \in DOMAIN proc.p \ DOMAIN m : proc'.p[k] = proc.p[k]
             /\ [proc' EXCEPT !.p = proc.p] = proc
             /\ Assign(proc'.p, m) = proc'.p
             /\ (\A k \in DOMAIN m : k \in DOMAIN proc.p /\ proc.p[k] = m[k])
                  => proc' = proc]_vars

\* the first 'set' of gain has been handled after a rendered block, and the
\* same message is in the port a second time
C13_Witness ==
  /\ blocks > 0 /\ proc.t > 0
  /\ proc.p.gain = 500
  /\ port # <<>> /\ Head(port) = [type |-> "set", params |-> SetParam(<<>>, "gain", 500)]

\* C14: after stop() has completed the engine holds no session state (the
\* six fields are null, the generator map is empty, isRecording is false),
\* and a start() builds the generators and the master gain from its own
\* initial state or the defaults only.
C14_NoSessionStateAfterStop ==
  /\ [](~sess.eng.ctx => /\ sess.eng = NullEngine
                         /\ sess.generators = <<>>
                         /\ ~sess.isRecording)
  /\ [][(startPc = "loading" /\ startPc' = "locking")
          => /\ sess'.generators = BuiltGenerators(sessArg)
             /\ sess'.master = BuiltMaster(sessArg)]_vars

\* channel 0 of a block: its samples, none for a block without channels
Channel0(block) == IF block = <<>> THEN <<>> ELSE block[1]

\* the samples of a block, channel after channel
AllChannels(block) == Concat(block)

\* the worklet handles 'stop' in this step
HandlesStop ==
  /\ rec.alive /\ rec.inbox # <<>> /\ Head(rec.inbox).type = "stop"
  /\ rec'.inbox = Tail(rec.inbox)
  /\ Len(rec'.outbox) = Len(rec.outbox) + 1

\* C15 as stated: process() copies every input block unchanged to its
\* output, and the samples posted in reply to 'stop' are the concatenation
\* of all input blocks processed since the most recent 'start'.
C15_TapCopiesWholeBlocks ==
  /\ [][(\E input \in RecInputs : RecProcess(input))
          => rec'.out = IF rec'.tape[Len(rec'.tape)] = <<>> THEN <<Silence>>
                        ELSE rec'.tape[Len(rec'.tape)]]_vars
  /\ [][HandlesStop
          => rec'.outbox[Len(rec'.outbox)].samples
               = Concat([k \in 1..Len(rec.tape) |-> AllChannels(rec.tape[k])])
       ]_vars

\* C15 (amended): process() copies channel 0 of every input block to its
\* one-channel output, silence for an input without channels, whether or
\* not recording is active; the samples posted in reply to a 'stop' handled
\* while recording are the concatenation, in arrival order, of channel 0 of
\* all input blocks processed since the most recent 'start', and a 'stop'
\* handled while not recording is answered with no samples.
C15_TapCopiesChannel0 ==
  /\ [][(\E input \in RecInputs : RecProcess(input))
          => rec'.out = IF rec'.tape[Len(rec'.tape)] = <<>> THEN <<Silence>>
                        ELSE <<Channel0(rec'.tape[Len(rec'.tape)])>>]_vars
  /\ [][HandlesStop
          => rec'.outbox[Len(rec'.outbox)].samples
               = IF rec.recording
                 THEN Concat([k \in 1..Len(rec.tape) |-> Channel0(rec.tape[k])])
                 ELSE <<>>]_vars

\* a recording of one stereo block has been answered with its channel 0
C15_Witness ==
  /\ rec.outbox = <<[type |-> "data", samples |-> ChannelB]>>
  /\ rec.tape = <<<<ChannelB, ChannelA>>>>
  /\ ~rec.recording
  /\ rec.out = <<ChannelB>>

\* C16: once stop() and every requestWakeLock call in flight have
\* completed, no sentinel obtained by the module is unreleased and
\* hasWakeLock() is false.
C16_StoppedReleasesWakeLock ==
  (~sess.eng.ctx /\ stopPc = "idle" /\ startPc = "idle" /\ wake.pending = 0)
    => (wake.live = {} /\ ~hasWakeLock(wake))

\* the gain target of a formula's mixer gain node is non-zero
Audible(id) == id \in DOMAIN sess.generators /\ sess.generators[id].target # 0

\* C17: once the handlers have settled after a checkbox was enabled, the
\* engine is running and a generator's gain target is non-zero exactly for
\* the formulas whose checkbox is checked.
C17_CheckedIffAudible ==
  (startPc = "idle" /\ ui.waiting = <<>>)
    => /\ (\E id \in SessFormulas : ui.checked[id]) => isRunning(sess)
       /\ sess.eng.ctx
            => \A id \in SessFormulas : ui.checked[id] <=> Audible(id)

\* every high surrogate of the string is followed by a low one, and every
\* low one follows a high one
WellFormed(str) ==
  \A k \in 1..Len(str) :
    /\ IsHigh(str[k]) => (k < Len(str) /\ IsLow(str[k + 1]))
    /\ IsLow(str[k]) => (k > 1 /\ IsHigh(str[k - 1]))

MixSlot == [chorus |-> 2, phaser |-> 3, delay |-> 4, reverb |-> 5]

\* the mix of an effect in the state updateParams was last given
CurrentMix(e) ==
  CASE e = "chorus" -> fx.params.chorusMix
    [] e = "phaser" -> fx.params.phaserMix
    [] e = "delay" -> fx.params.delayMix
    [] e = "reverb" -> fx.params.reverbMix

\* a node of the effect is on a path from the chain's input to its output
OnSignalPath(e) == StageNodes(MixSlot[e]) \cap OnPath(edges) # {}

\* C19: whenever Chorus, Phaser, Delay or Reverb is on the signal path its
\* dry gain is 1 - mix and its wet gain is mix for the current mix value,
\* and it is never on the path with the node-default gains dry = wet = 1.
C19_MixGainsOnPath ==
  \A e \in DOMAIN MixSlot :
    OnSignalPath(e)
      => /\ fx.params # NoFlags
         /\ fx.gain[e].dry = Unit - CurrentMix(e)
         /\ fx.gain[e].wet = CurrentMix(e)
         /\ fx.gain[e].dry + fx.gain[e].wet = Unit
         /\ fx.gain[e] # NodeDefault

\* the delay is on the path, rebuilt with one mix and then given another
C19_Witness ==
  /\ OnSignalPath("delay")
  /\ wired.delayMix = 0
  /\ fx.params.delayMix = 250
  /\ fx.gain.delay = [dry |-> Unit - 250, wet |-> 250]
  /\ pc = "running"

\* C20: the logistic recurrence is applied once every step samples counted
\* over the whole stream, across block boundaries: in every block, exactly
\* at the sample times that are multiples of step.
C20_LogisticEveryStep ==
  (proc.formula = "logistic" /\ blocks > 0)
    => lastBlock.upd =
         {t \in (proc.t - BlockLen)..(proc.t - 1) : t % LogisticStep(proc.p) = 0}

\* the buffer cells the karplus case writes during one block
WrittenCells(this) ==
  {((this.ksIdx + k) % this.ksN) + 1 : k \in 0..(BlockLen - 1)}

\* the buffer, its length and its index are the same before and after
SameBuffer ==
  /\ proc'.ksBuf = proc.ksBuf
  /\ proc'.ksIdx = proc.ksIdx
  /\ proc'.ksN = proc.ksN

\* C21: a 'set' message (ksDamp, ksBright, gain, ksFreq) leaves the buffer,
\* its length and its index alone, and a block rendered while the target
\* length equals the current length goes on with the same buffer: the first
\* sample is the cell at the old index, the index advances by the block
\* length and the cells not written in the block keep their contents.
C21_ReallocOnlyOnLengthChange ==
  [][/\ (port # <<>> /\ port' = Tail(port) /\ Head(port).type = "set")
          => SameBuffer
     /\ (proc.formula = "karplus" /\ blocks' = blocks + 1
           /\ proc.ksBuf # <<>> /\ proc.ksN = KSLength(proc.p))
          => /\ proc'.ksN = proc.ksN
             /\ proc'.ksIdx = (proc.ksIdx + BlockLen) % proc.ksN
             /\ lastBlock'.raw[1] = proc.ksBuf[proc.ksIdx + 1]
             /\ \A i \in (1..proc.ksN) \ WrittenCells(proc) :
                  proc'.ksBuf[i] = proc.ksBuf[i]]_vars

\* damping, brightness and a string frequency of the same length 3
\* have been set, and two blocks later the length-3 buffer is at index
\* 2 * BlockLen mod 3 with one of its noise cells as it was filled
C21_Witness ==
  /\ proc.formula = "karplus"
  /\ proc.p.ksFreq = 28000
  /\ proc.p.ksDamp = 900
  /\ proc.p.ksBright = Unit
  /\ blocks = 2
  /\ proc.ksN = 3
  /\ proc.ksIdx = (2 * BlockLen) % 3
  /\ port = <<>>

\* round(a / b) for positive a and b, as Math.round does
RoundDiv(a, b) == (2 * a + b) \div (2 * b)

\* the string frequency initKS uses
StringFreq(p) ==
  Max(20 * Unit, IF p.ksFreq = 0 THEN 110 * Unit ELSE p.ksFreq)

\* C22: once the karplus case has run with the current ksFreq, the buffer
\* length is round(sr / freq), for frequencies of at least two samples per
\* period.
C22_LengthIsRounded ==
  (proc.formula = "karplus" /\ blocks > 0
     /\ proc.ksN = KSLength(proc.p)
     /\ 2 * StringFreq(proc.p) <= SampleRate * Unit)
    => proc.ksN = RoundDiv(SampleRate * Unit, StringFreq(proc.p))

\* C30: the Karplus-Strong buffer exists, ksN is its length, ksN >= 2 and
\* 0 <= ksIdx < ksN in every reachable state, and the taps the last block
\* read at idx and (idx + 1) mod ksN were inside the buffer.
C30_KarplusIndexInBuffer ==
  /\ [](proc.formula = "karplus"
          => /\ proc.ksBuf # <<>>
             /\ proc.ksN = Len(proc.ksBuf)
             /\ proc.ksN >= 2
             /\ proc.ksIdx \in 0..(proc.ksN - 1))
  /\ [][(proc.formula = "karplus" /\ blocks' = blocks + 1)
          => /\ lastBlock'.taps # {}
             /\ lastBlock'.taps \subseteq 0..(proc'.ksN - 1)]_vars

\* a block has grown the buffer from 2 to 3 cells and left the index at the
\* last cell, and a ksFreq of target length 2 has been handled since: the
\* index is beyond the length the next block shrinks the buffer to
C30_Witness ==
  /\ proc.formula = "karplus"
  /\ blocks = 1
  /\ proc.ksN = 3
  /\ proc.ksIdx = BlockLen % 3
  /\ BlockLen % 3 = 2
  /\ KSLength(proc.p) = 2
  /\ port = <<>>

\* C23: the Shepard generator's normalized position shepardT stays in
\* [0, 1) in every reachable state, for every shepSpeed of -0.5..0.5.
C23_ShepardPositionInUnit ==
  proc.formula = "shepard"
    => (0 <= proc.shepardT /\ proc.shepardT < Unit)

\* the connections a1 -> a2 -> ... of the nodes of a sequence
InSeries(E, nodes) ==
  \A i \in 1..(Len(nodes) - 1) : <<nodes[i], nodes[i + 1]>> \in E

C25_ImpulseKeptOnSameDecay ==
  [][(fx.params # NoFlags /\ fx'.params # NoFlags /\ fx' # fx
        /\ fx'.params.reverbDecay = fx.params.reverbDecay)
       => fx'.impulse = fx.impulse]_vars

\* the step in which start() goes on after an await without a context
StartThrows ==
  /\ startPc \in {"resuming", "loading"}
  /\ ~sess.eng.ctx
  /\ startPc' = "idle"

\* the step in which a stop() reaches this.ctx.close() without a context
StopThrows == sess.stopAgain /\ ~sess'.stopAgain /\ ~sess.eng.ctx

\* the step in which a stop() closes the context another stop() is closing
ClosesTwice ==
  sess.stopAgain /\ ~sess'.stopAgain /\ sess.eng.ctx /\ stopPc = "closing"

\* all the start() and stop() calls have settled
Settled == startPc = "idle" /\ stopPc = "idle" /\ ~sess.stopAgain

\* C26: under every interleaving of start() and stop() calls no call
\* dereferences a null context or closes a context twice, and once all
\* calls have settled the engine is fully started or fully stopped.
C26_StartStopInterleavings ==
  /\ [][~StartThrows /\ ~StopThrows /\ ~ClosesTwice]_vars
  /\ [](Settled
          => \/ sess.eng = RunningEngine /\ DOMAIN sess.generators = SessFormulas
             \/ sess.eng = NullEngine /\ sess.generators = <<>>)

\* C27: every promise stopRecording() returns is eventually resolved, to
\* the page and to a stop() awaiting it, also when a second stopRecording()
\* is called before the reply to the first has arrived; and isRecording is
\* false once a reply is handled.
C27_StopRecordingResolves ==
  /\ (rec.pending > 0) ~> (rec.pending = 0)
  /\ (stopPc = "recording") ~> (stopPc # "recording")
  /\ [][(rec.outbox # <<>> /\ rec'.outbox = Tail(rec.outbox)
           /\ rec.handler # "none" /\ rec'.handler = "spent")
          => ~sess'.isRecording]_vars

\* C28: after a preset is applied while audio is running the engine agrees
\* with the page: a generator's gate is open exactly if its checkbox is
\* checked, its gain parameter is the value of its knob, and the master
\* gain is the value of the master knob.
C28_PresetReachesEngine ==
  (ui.applied /\ isRunning(sess) /\ startPc = "idle")
    => /\ \A id \in SessFormulas : ui.checked[id] <=> Audible(id)
       /\ \A id \in SessFormulas :
            sess.generators[id].params.gain = ui.gain[id]
       /\ sess.master = ui.master

\* C29: the value a knob stores stays within [min, max] after any sequence
\* of drag, wheel, double-click and updateKnob operations, for every min,
\* max and step; and onChange is called only by an operation of the user
\* that has changed the stored value.
C29_KnobValueInRange ==
  /\ [](ui.knob.min <= ui.knob.value /\ ui.knob.value <= ui.knob.max)
  /\ [][ui'.knob.fired
          => /\ ui'.knob.value # ui.knob.value
             /\ ui'.knob.op \in {"drag", "wheel", "dblclick"}]_vars

====
